---------------------------- MODULE Spec2Model ----------------------------
(***************************************************************************)
(* A model of the NHL_ML pipeline: the stats client (nhl_api.py), the      *)
(* feature extractor and dataset assembler (NHLDataProcessor), the ML data *)
(* processor (MLDataProcessor) and the model trainer (ModelTrainer).       *)
(*                                                                         *)
(* Python values are tagged records [t |-> tag, v |-> payload]:            *)
(*   None -> PyNone, int -> PyInt(n), str -> PyStr(sequence of characters),*)
(*   dict -> PyDict(function from key names to values),                    *)
(*   list -> PyList(sequence of values), float nan -> PyNaN,               *)
(*   the float quotient a / b -> PyQuot(a, b).                             *)
(* A raised exception is a result record whose exc field names it.         *)
(***************************************************************************)
EXTENDS Integers, Sequences, FiniteSets, TLC

VARIABLES
    player_data,     \* extractor: the raw record handed to extract_player_features
    extracted,       \* extractor: the outcome of the call, NotCalled before it
    json_file,       \* assembler: what load_json_data finds at json_path
    dataset,         \* assembler: the outcome of create_dataset, NotCalled before it
    http,            \* stats client: what the remote endpoint answers to the next GET
    requests,        \* stats client: the GETs issued so far
    api_result,      \* stats client: the outcome of the last call, NotCalled before it
    trainer,         \* ModelTrainer: model_type, model, data_processor
    disk,            \* ModelTrainer: the bundles written by joblib.dump, by path
    ml_result,       \* ModelTrainer / MLDataProcessor: outcome of the last call
    history,         \* ModelTrainer: what has happened to this trainer so far
    evaluator,       \* ModelEvaluator: predictions, actual_values, feature_importance
    ev_result        \* ModelEvaluator: outcome of the last call and calls made so far

exVars  == <<player_data, extracted>>
dsVars  == <<json_file, dataset>>
apiVars == <<http, requests, api_result>>
mlVars  == <<trainer, disk, ml_result, history>>
evVars  == <<evaluator, ev_result>>
vars    == <<player_data, extracted, json_file, dataset, http, requests,
             api_result, trainer, disk, ml_result, history, evaluator, ev_result>>

-----------------------------------------------------------------------------
(* Bounds of the model *)

MaxNameLen == 2      \* longest name string enumerated
MaxBirthLen == 1     \* longest free-form birthDate string enumerated
MaxStat == 2         \* largest counting statistic enumerated
MaxId == 2           \* largest playerId enumerated
MaxPlayers == 3      \* most player entries of an input file enumerated
MaxRows == 2         \* most rows of a DataFrame enumerated
MaxGets == 3         \* most GETs recorded before the client model stops
MaxCalls == 3        \* most calls made on one trainer

-----------------------------------------------------------------------------
(* Python values *)

PyNone == [t |-> "null", v |-> 0]
PyNaN == [t |-> "nan", v |-> 0]
PyInt(n) == [t |-> "int", v |-> n]
PyStr(s) == [t |-> "str", v |-> s]
PyDict(f) == [t |-> "dict", v |-> f]
PyList(s) == [t |-> "list", v |-> s]
PyQuot(a, b) == [t |-> "float", v |-> <<a, b>>]

\* A key that the mapping does not hold (used only to enumerate inputs).
Absent == [t |-> "absent", v |-> 0]

EmptyDict == [k \in {} |-> PyNone]

\* The mapping holding the keys of r whose value is not Absent.
MkDict(r) == [k \in {k \in DOMAIN r : r[k] # Absent} |-> r[k]]

\* d.get(k, dflt)
Get(d, k, dflt) == IF k \in DOMAIN d THEN d[k] ELSE dflt

\* d.get(k)
GetOrNone(d, k) == Get(d, k, PyNone)

\* The outcome of an operation that has not been called yet.
NotCalled == [exc |-> "not_called", value |-> PyNone]

Returned(x) == [exc |-> "none", value |-> x]
Raised(e) == [exc |-> e, value |-> PyNone]

-----------------------------------------------------------------------------
(* Strings: sequences of one-character strings *)

IsSpace(c) == c \in {" ", "\t", "\n"}

RECURSIVE LStrip(_)
LStrip(s) == IF s # <<>> /\ IsSpace(Head(s)) THEN LStrip(Tail(s)) ELSE s

RECURSIVE RStrip(_)
RStrip(s) ==
    IF s # <<>> /\ IsSpace(s[Len(s)]) THEN RStrip(SubSeq(s, 1, Len(s) - 1)) ELSE s

\* str.strip()
Strip(s) == RStrip(LStrip(s))

Digits == <<"0", "1", "2", "3", "4", "5", "6", "7", "8", "9">>
IsDigit(c) == \E i \in 1..10 : Digits[i] = c
DigitVal(c) == (CHOOSE i \in 1..10 : Digits[i] = c) - 1

RECURSIVE NatToStr(_)
NatToStr(n) ==
    IF n < 10 THEN <<Digits[n + 1]>> ELSE NatToStr(n \div 10) \o <<Digits[(n % 10) + 1]>>

\* str(n) of an int
IntToStr(n) == IF n < 0 THEN <<"-">> \o NatToStr(-n) ELSE NatToStr(n)

\* format(x, "") inside an f-string, for the values a name field can hold
Format(x) ==
    CASE x.t = "str" -> x.v
      [] x.t = "null" -> <<"N", "o", "n", "e">>
      [] x.t = "int" -> IntToStr(x.v)
      [] x.t = "dict" /\ DOMAIN x.v = {} -> <<"{", "}">>

\* s.split(sep)[0]: the text before the first occurrence of sep
RECURSIVE SplitFirst(_, _)
SplitFirst(s, sep) ==
    IF s = <<>> \/ Head(s) = sep THEN <<>> ELSE <<Head(s)>> \o SplitFirst(Tail(s), sep)

RECURSIVE DigitsVal(_)
DigitsVal(s) ==
    IF s = <<>> THEN 0 ELSE DigitsVal(SubSeq(s, 1, Len(s) - 1)) * 10 + DigitVal(s[Len(s)])

AllDigits(s) == s # <<>> /\ \A i \in 1..Len(s) : IsDigit(s[i])

\* int(s): surrounding whitespace is dropped, one sign is allowed, the rest must
\* be decimal digits; anything else is a ValueError.
ParseInt(s) ==
    LET body == Strip(s)
        signed == body # <<>> /\ Head(body) \in {"+", "-"}
        digits == IF signed THEN Tail(body) ELSE body
    IN  IF ~AllDigits(digits) THEN Raised("ValueError")
        ELSE IF signed /\ Head(body) = "-" THEN Returned(PyInt(-DigitsVal(digits)))
        ELSE Returned(PyInt(DigitsVal(digits)))

\* The characters of a string literal, for readability of the inputs below.
TOR == <<"T", "O", "R">>
FLA == <<"F", "L", "A">>
BOS == <<"B", "O", "S">>

-----------------------------------------------------------------------------
(* NHLDataProcessor.extract_player_features *)

\* The fixed reference year of the age computation.
ReferenceYear == 2024

\* The birth date used when the record has no birthDate key.
DefaultBirthDate == <<"1", "9", "0", "0", "-", "0", "1", "-", "0", "1">>

\* first_name / last_name: the 'default' sub-field of a mapping, else the raw
\* value, with '' for a missing key (in either lookup).
NameField(pd, key) ==
    IF GetOrNone(pd, key).t = "dict"
    THEN Get(pd[key].v, "default", PyStr(<<>>))
    ELSE Get(pd, key, PyStr(<<>>))

\* features['name'] = f"{first_name} {last_name}".strip()
NameOf(pd) ==
    PyStr(Strip(Format(NameField(pd, "firstName")) \o <<" ">>
                \o Format(NameField(pd, "lastName"))))

\* features['age']: the try block of lines 66-72. A value without .split
\* (AttributeError) and a first segment int() rejects (ValueError) are both
\* caught and give None.
AgeOf(pd) ==
    LET birth_date == Get(pd, "birthDate", PyStr(DefaultBirthDate))
    IN  IF birth_date.t # "str" THEN PyNone
        ELSE LET year == ParseInt(SplitFirst(birth_date.v, "-"))
             IN  IF year.exc # "none" THEN PyNone
                 ELSE PyInt(ReferenceYear - year.value.v)

\* The chain player_data.get('featuredStats', {}).get('regularSeason', {})
\* .get('subSeason', {}) followed by reg_season.get(...): every link must be a
\* mapping, anything else has no .get and raises AttributeError.
RegSeasonOf(pd) ==
    LET fs == Get(pd, "featuredStats", PyDict(EmptyDict))
    IN  IF fs.t # "dict" THEN Raised("AttributeError")
        ELSE LET rs == Get(fs.v, "regularSeason", PyDict(EmptyDict))
             IN  IF rs.t # "dict" THEN Raised("AttributeError")
                 ELSE LET ss == Get(rs.v, "subSeason", PyDict(EmptyDict))
                      IN  IF ss.t # "dict" THEN Raised("AttributeError")
                          ELSE Returned(ss)

\* The chain player_data.get('careerTotals', {}).get('regularSeason', {})
\* followed by career.get(...).
CareerOf(pd) ==
    LET ct == Get(pd, "careerTotals", PyDict(EmptyDict))
    IN  IF ct.t # "dict" THEN Raised("AttributeError")
        ELSE LET cr == Get(ct.v, "regularSeason", PyDict(EmptyDict))
             IN  IF cr.t # "dict" THEN Raised("AttributeError")
                 ELSE Returned(cr)

\* x > 0 for a Python value: ordering None, a str, a dict or a list against an
\* int is a TypeError; nan > 0 is False.
GreaterThanZero(x) ==
    CASE x.t = "int" -> Returned(x.v > 0)
      [] x.t = "nan" -> Returned(FALSE)
      [] x.t = "float" -> Returned(x.v[1] * x.v[2] > 0)
      [] OTHER -> Raised("TypeError")

\* a / b for Python values
TrueDiv(a, b) ==
    IF a.t \notin {"int", "nan"} \/ b.t \notin {"int", "nan"} THEN Raised("TypeError")
    ELSE IF b.t = "int" /\ b.v = 0 THEN Raised("ZeroDivisionError")
    ELSE IF a.t = "nan" \/ b.t = "nan" THEN Returned(PyNaN)
    ELSE Returned(PyQuot(a.v, b.v))

ZeroRates ==
    [goals_per_game |-> PyInt(0), points_per_game |-> PyInt(0),
     shots_per_game |-> PyInt(0)]

\* The guard of the per-game block, as a variant that also divides when
\* games_played is 0.
PerGameGuardAlsoZero(games) ==
    IF games.t = "int" /\ games.v = 0 THEN Returned(TRUE) ELSE GreaterThanZero(games)

\* if features['games_played'] > 0
PerGameGuard(games) == GreaterThanZero(games)

\* Lines 112-121: the three per-game rates, computed in the order goals,
\* points, shots; the first failing step raises.
PerGameRates(games, goals, points, shots) ==
    LET guard == PerGameGuard(games)
    IN  IF guard.exc # "none" THEN guard
        ELSE IF ~guard.value THEN Returned(ZeroRates)
        ELSE LET g == TrueDiv(goals, games)
                 p == TrueDiv(points, games)
                 s == TrueDiv(shots, games)
             IN  IF g.exc # "none" THEN g
                 ELSE IF p.exc # "none" THEN p
                 ELSE IF s.exc # "none" THEN s
                 ELSE Returned([goals_per_game |-> g.value,
                                points_per_game |-> p.value,
                                shots_per_game |-> s.value])

\* The feature record, given the two stats mappings and the rates.
FeatureRecord(pd, season, career, rates) ==
    [player_id |-> GetOrNone(pd, "playerId"),
     team |-> GetOrNone(pd, "currentTeamAbbrev"),
     position |-> GetOrNone(pd, "position"),
     name |-> NameOf(pd),
     age |-> AgeOf(pd),
     height_cm |-> GetOrNone(pd, "heightInCentimeters"),
     weight_kg |-> GetOrNone(pd, "weightInKilograms"),
     games_played |-> Get(season, "gamesPlayed", PyInt(0)),
     goals |-> Get(season, "goals", PyInt(0)),
     assists |-> Get(season, "assists", PyInt(0)),
     points |-> Get(season, "points", PyInt(0)),
     plus_minus |-> Get(season, "plusMinus", PyInt(0)),
     pim |-> Get(season, "pim", PyInt(0)),
     shots |-> Get(season, "shots", PyInt(0)),
     shooting_pct |-> Get(season, "shootingPctg", PyInt(0)),
     powerplay_goals |-> Get(season, "powerPlayGoals", PyInt(0)),
     powerplay_points |-> Get(season, "powerPlayPoints", PyInt(0)),
     career_games |-> Get(career, "gamesPlayed", PyInt(0)),
     career_goals |-> Get(career, "goals", PyInt(0)),
     career_assists |-> Get(career, "assists", PyInt(0)),
     career_points |-> Get(career, "points", PyInt(0)),
     career_plus_minus |-> Get(career, "plusMinus", PyInt(0)),
     career_pim |-> Get(career, "pim", PyInt(0)),
     career_shots |-> Get(career, "shots", PyInt(0)),
     career_shooting_pct |-> Get(career, "shootingPctg", PyInt(0)),
     career_powerplay_goals |-> Get(career, "powerPlayGoals", PyInt(0)),
     career_powerplay_points |-> Get(career, "powerPlayPoints", PyInt(0)),
     goals_per_game |-> rates.goals_per_game,
     points_per_game |-> rates.points_per_game,
     shots_per_game |-> rates.shots_per_game]

\* extract_player_features(player_data), for player_data a mapping: the feature
\* record, or the exception that escapes.
extract_player_features(pd) ==
    LET reg_season == RegSeasonOf(pd)
    IN  IF reg_season.exc # "none" THEN reg_season
        ELSE LET career == CareerOf(pd)
             IN  IF career.exc # "none" THEN career
                 ELSE LET season == reg_season.value.v
                          rates == PerGameRates(Get(season, "gamesPlayed", PyInt(0)),
                                                Get(season, "goals", PyInt(0)),
                                                Get(season, "points", PyInt(0)),
                                                Get(season, "shots", PyInt(0)))
                      IN  IF rates.exc # "none" THEN rates
                          ELSE Returned(FeatureRecord(pd, season, career.value.v,
                                                      rates.value))

-----------------------------------------------------------------------------
(* Inputs of the extractor *)

\* All sequences over S of length at most n.
SeqsUpTo(S, n) == UNION {[1..k -> S] : k \in 0..n}

\* base with the keys of over replaced (or removed, when Absent).
With(base, over) ==
    MkDict([k \in DOMAIN base \cup DOMAIN over |->
               IF k \in DOMAIN over THEN over[k] ELSE base[k]])

\* The record of tests/test_data_processor.py.
FixtureRecord ==
    [playerId |-> PyInt(8478483),
     firstName |-> PyDict([default |-> PyStr(<<"J", "o", "h", "n">>)]),
     lastName |-> PyDict([default |-> PyStr(<<"D", "o", "e">>)]),
     currentTeamAbbrev |-> PyStr(TOR),
     position |-> PyStr(<<"C">>),
     birthDate |-> PyStr(<<"1", "9", "9", "6", "-", "0", "9", "-", "1", "7">>),
     heightInCentimeters |-> PyInt(183),
     weightInKilograms |-> PyInt(88),
     featuredStats |-> PyDict([regularSeason |-> PyDict([subSeason |-> PyDict(
         [gamesPlayed |-> PyInt(82), goals |-> PyInt(30), assists |-> PyInt(50),
          points |-> PyInt(80), plusMinus |-> PyInt(15), pim |-> PyInt(20),
          shots |-> PyInt(200), shootingPctg |-> PyInt(15),
          powerPlayGoals |-> PyInt(10), powerPlayPoints |-> PyInt(25)])])]),
     careerTotals |-> PyDict([regularSeason |-> PyDict(
         [gamesPlayed |-> PyInt(300), goals |-> PyInt(100), assists |-> PyInt(150),
          points |-> PyInt(250), plusMinus |-> PyInt(45), pim |-> PyInt(80),
          shots |-> PyInt(800), shootingPctg |-> PyInt(12),
          powerPlayGoals |-> PyInt(30), powerPlayPoints |-> PyInt(75)])])]

NameChars == {"J", " "}
NameStrs == SeqsUpTo(NameChars, MaxNameLen)

\* A name field: missing, null, a number, a plain string, or a mapping with or
\* without a 'default' sub-field.
NameVals ==
    {Absent, PyNone, PyInt(7)}
    \cup {PyStr(s) : s \in NameStrs}
    \cup {PyDict(MkDict([default |-> d])) :
             d \in {Absent, PyNone} \cup {PyStr(s) : s \in NameStrs}}

BirthChars == {"1", "-", "x", " ", "+"}
BirthStrs ==
    SeqsUpTo(BirthChars, MaxBirthLen)
    \cup {<<"1", "9", "9", "6", "-", "0", "9", "-", "1", "7">>,
          <<"2", "0", "2", "4", "-", "0", "1", "-", "0", "1">>,
          <<"1", "9", "9", "6">>,
          <<" ", "1", "9", "9", "6", " ", "-", "0", "9", "-", "1", "7">>,
          <<"+", "1", "9", "9", "6", "-", "0", "9", "-", "1", "7">>,
          <<"x", "9", "9", "6", "-", "0", "9", "-", "1", "7">>,
          <<"1", "9", "9", "6", "/", "0", "9", "/", "1", "7">>,
          <<"-", "1", "9", "9", "6">>}

BirthVals ==
    {Absent, PyNone, PyInt(1996), PyList(<<>>)} \cup {PyStr(s) : s \in BirthStrs}

GamesVals ==
    {Absent, PyNone, PyNaN, PyStr(<<"2">>)} \cup {PyInt(n) : n \in -1..MaxStat}
CountVals == {Absent, PyNone} \cup {PyInt(n) : n \in 0..MaxStat}

SubSeasonVals ==
    {PyDict(MkDict([gamesPlayed |-> g, goals |-> a, points |-> p, shots |-> s])) :
        g \in GamesVals, a \in CountVals, p \in {Absent, PyInt(1), PyInt(MaxStat)},
        s \in {Absent, PyInt(MaxStat)}}

FeaturedVals ==
    {Absent, PyNone, PyList(<<>>), PyDict(EmptyDict),
     PyDict([regularSeason |-> PyNone]),
     PyDict([regularSeason |-> PyDict(EmptyDict)]),
     PyDict([regularSeason |-> PyDict([subSeason |-> PyNone])])}
    \cup {PyDict([regularSeason |-> PyDict([subSeason |-> ss])]) : ss \in SubSeasonVals}

CareerVals ==
    {Absent, PyNone, PyDict(EmptyDict),
     PyDict([regularSeason |-> PyNone]),
     PyDict([regularSeason |-> PyDict([gamesPlayed |-> PyInt(3), goals |-> PyInt(1)])])}

\* The raw records the extractor is run on: the fixture with its name fields,
\* its birth date, or its two stats mappings replaced.
ExtractInputs ==
    {With(FixtureRecord, [firstName |-> f, lastName |-> l]) :
        f \in NameVals, l \in NameVals}
    \cup {With(FixtureRecord, [birthDate |-> b]) : b \in BirthVals}
    \cup {With(FixtureRecord, [featuredStats |-> fs, careerTotals |-> ct]) :
            fs \in FeaturedVals, ct \in CareerVals}

-----------------------------------------------------------------------------
(* The extractor as a state machine: one call on one raw record *)

Idle == "idle"

ExtractInit ==
    /\ player_data \in ExtractInputs
    /\ extracted = NotCalled
    /\ json_file = Idle /\ dataset = Idle
    /\ http = Idle /\ requests = Idle /\ api_result = Idle
    /\ trainer = Idle /\ disk = Idle /\ ml_result = Idle /\ history = Idle
    /\ evaluator = Idle /\ ev_result = Idle

Extract ==
    /\ extracted = NotCalled
    /\ extracted' = extract_player_features(player_data)
    /\ UNCHANGED <<player_data, dsVars, apiVars, mlVars, evVars>>

ExtractNext == Extract

SpecExtract == ExtractInit /\ [][ExtractNext]_vars

-----------------------------------------------------------------------------
(* NHLDataProcessor.load_json_data and create_dataset *)

\* The top-level JSON object keeps the order of its keys (a Python dict iterates
\* in insertion order): PyODict(items) is the mapping whose items() are the
\* <<key, value>> pairs of items, in that order.
PyODict(items) == [t |-> "odict", v |-> items]

\* The content of a file is a sequence of chunks of text: the marker
\* "Saving complete stats to file...", white space, the text of one JSON value
\* (of an object, an array or null, so that two of them in a row are no JSON
\* text), or log lines, which are no JSON text and hold no marker.
Marker == [c |-> "marker", v |-> PyNone]
WhiteSpace == [c |-> "space", v |-> PyNone]
LogText == [c |-> "log", v |-> PyNone]
JsonText(x) == [c |-> "json", v |-> x]

\* The file at json_path: one that open() or read() raises on, or its content.
UnreadableFile == [kind |-> "unreadable", content |-> <<>>]
TextFile(content) == [kind |-> "text", content |-> content]

\* Log lines only.
InvalidJsonFile == TextFile(<<LogText>>)

\* The file the stats script leaves: its log, the marker, the JSON text of x.
JsonFile(x) == TextFile(<<LogText, Marker, WhiteSpace, JsonText(x), WhiteSpace>>)

\* content.split(split_text): the pieces between the occurrences of the marker
RECURSIVE StrSplit(_)
StrSplit(content) ==
    IF \A i \in 1..Len(content) : content[i] # Marker THEN <<content>>
    ELSE LET i == CHOOSE k \in 1..Len(content) :
                     /\ content[k] = Marker
                     /\ \A j \in 1..(k - 1) : content[j] # Marker
         IN  <<SubSeq(content, 1, i - 1)>>
                 \o StrSplit(SubSeq(content, i + 1, Len(content)))

\* pieces[-1], as a variant that takes the piece after the first marker.
SecondPiece(pieces) == pieces[IF Len(pieces) > 1 THEN 2 ELSE 1]

\* pieces[-1]
LastPiece(pieces) == pieces[Len(pieces)]

\* content.strip(), on chunks
RECURSIVE StripText(_)
StripText(text) ==
    IF text = <<>> THEN text
    ELSE IF Head(text) = WhiteSpace THEN StripText(Tail(text))
    ELSE IF text[Len(text)] = WhiteSpace THEN StripText(SubSeq(text, 1, Len(text) - 1))
    ELSE text

\* json.loads(json_str) of a stripped text: the value of the one JSON text it
\* consists of, a JSONDecodeError for anything else (no text, log lines, text
\* before or after the JSON text).
JsonLoads(json_str) ==
    IF Len(json_str) = 1 /\ json_str[1].c = "json" THEN Returned(json_str[1].v)
    ELSE Raised("JSONDecodeError")

\* load_json_data: the parsed value, or {} when open() or json.loads() raised.
load_json_data(file) ==
    IF file.kind = "unreadable" THEN PyODict(<<>>)
    ELSE LET json_str == StripText(LastPiece(StrSplit(file.content)))
             parsed == JsonLoads(json_str)
         IN  IF parsed.exc # "none" THEN PyODict(<<>>) ELSE parsed.value

\* self.teams of NHLDataProcessor (its keys).
TeamsOfInterest == {TOR, FLA}

\* bool(x)
Truthy(x) ==
    CASE x.t = "null" -> FALSE
      [] x.t = "int" -> x.v # 0
      [] x.t = "nan" -> TRUE
      [] x.t = "float" -> x.v[1] # 0
      [] x.t \in {"str", "list"} -> x.v # <<>>
      [] x.t = "dict" -> DOMAIN x.v # {}

\* Whether hash(x) succeeds: lists and dicts are unhashable.
Hashable(x) == x.t \notin {"list", "dict"}

\* iter(x), as the sequence of the items it yields: a list yields its elements,
\* a str its characters; None and numbers are not iterable.
IterOf(x) ==
    CASE x.t = "list" -> Returned(x.v)
      [] x.t = "str" -> Returned([i \in 1..Len(x.v) |-> PyStr(<<x.v[i]>>)])
      [] x.t \in {"null", "int", "nan", "float"} -> Raised("TypeError")

\* The team test of line 142, as a variant that keeps every team.
TeamOfInterestAny(team) == Returned(TRUE)

\* player_features.get('team') in self.teams: a dict lookup, which hashes team.
TeamOfInterest(team) ==
    IF ~Hashable(team) THEN Raised("TypeError")
    ELSE Returned(team.t = "str" /\ team.v \in TeamsOfInterest)

\* processed_ids after a player has been kept, as a variant that forgets it.
AddProcessedNever(processed_ids, player_id) == processed_ids

\* processed_ids.add(player_id)
AddProcessed(processed_ids, player_id) == processed_ids \cup {player_id}

\* One iteration of the inner loop (lines 137-148) on the accumulator
\* acc = [exc, all_players, processed_ids].
ProcessPlayer(acc, entry) ==
    IF entry.t # "dict" THEN [acc EXCEPT !.exc = "AttributeError"]
    ELSE LET player_id == GetOrNone(entry.v, "playerId")
         IN  IF ~Truthy(player_id) THEN acc
             ELSE IF ~Hashable(player_id) THEN [acc EXCEPT !.exc = "TypeError"]
             ELSE IF player_id \in acc.processed_ids THEN acc
             ELSE LET player_features == extract_player_features(entry.v)
                  IN  IF player_features.exc # "none"
                      THEN [acc EXCEPT !.exc = player_features.exc]
                      ELSE LET keep == TeamOfInterest(player_features.value.team)
                           IN  IF keep.exc # "none" THEN [acc EXCEPT !.exc = keep.exc]
                               ELSE IF ~keep.value THEN acc
                               ELSE [acc EXCEPT
                                       !.all_players = Append(@, player_features.value),
                                       !.processed_ids = AddProcessed(@, player_id)]

\* The inner loop over one team's entries; an exception ends it.
RECURSIVE ProcessPlayers(_, _)
ProcessPlayers(acc, entries) ==
    IF acc.exc # "none" \/ entries = <<>> THEN acc
    ELSE ProcessPlayers(ProcessPlayer(acc, Head(entries)), Tail(entries))

\* The outer loop over all_data.items() (lines 134-148).
RECURSIVE ProcessTeams(_, _)
ProcessTeams(acc, items) ==
    IF acc.exc # "none" \/ items = <<>> THEN acc
    ELSE LET team_data == IterOf(Head(items)[2])
         IN  IF team_data.exc # "none" THEN [acc EXCEPT !.exc = team_data.exc]
             ELSE ProcessTeams(ProcessPlayers(acc, team_data.value), Tail(items))

\* pd.isna(x)
IsNa(x) == x.t \in {"null", "nan"}

\* df.dropna(subset=['player_id', 'team']), on the rows of the frame
DropNa(rows) == SelectSeq(rows, LAMBDA r : ~IsNa(r.player_id) /\ ~IsNa(r.team))

\* create_dataset: the rows of the DataFrame returned, or the exception raised.
create_dataset(file) ==
    LET all_data == load_json_data(file)
    IN  IF all_data.t # "odict" THEN Raised("AttributeError")
        ELSE LET acc == ProcessTeams([exc |-> "none", all_players |-> <<>>,
                                      processed_ids |-> {}], all_data.v)
             IN  IF acc.exc # "none" THEN Raised(acc.exc)
                 ELSE IF acc.all_players = <<>> THEN Returned(<<>>)
                 ELSE Returned(DropNa(acc.all_players))

-----------------------------------------------------------------------------
(* Inputs of the assembler *)

Player(id, team, position) ==
    PyDict(MkDict([playerId |-> id, currentTeamAbbrev |-> team,
                   position |-> position]))

Centre == PyStr(<<"C">>)
Defence == PyStr(<<"D">>)

\* Well-formed entries: ids 1..MaxId in a team of interest or outside it, the
\* same id under another team or with another position, and ids that are falsy
\* or NaN.
CleanEntries ==
    {Player(PyInt(i), PyStr(TOR), Centre) : i \in 1..MaxId}
    \cup {Player(PyInt(1), PyStr(BOS), Centre),
          Player(PyInt(1), PyStr(FLA), Centre), Player(PyInt(1), PyStr(TOR), Defence),
          Player(PyInt(0), PyStr(TOR), Centre), Player(PyNaN, PyStr(TOR), Centre)}

\* Entries that are not well-formed: not a mapping, a null team, a team or an id
\* that cannot be hashed, a null featuredStats.
BadEntries ==
    {PyNone, PyInt(5),
     Player(Absent, PyStr(TOR), Centre),
     Player(PyInt(2), PyNone, Centre),
     Player(PyInt(2), PyList(<<>>), Centre),
     Player(PyList(<<PyInt(2)>>), PyStr(TOR), Centre),
     PyDict([playerId |-> PyInt(2), currentTeamAbbrev |-> PyStr(TOR),
             featuredStats |-> PyNone])}

\* Team values that are not lists of entries.
BadTeamVals == {PyNone, PyInt(0), PyStr(<<>>), PyStr(<<"x">>)}

\* The ways of cutting a sequence in two.
Splits(s) == {<<SubSeq(s, 1, k), SubSeq(s, k + 1, Len(s))>> : k \in 0..Len(s)}

CleanLists == SeqsUpTo(CleanEntries, MaxPlayers)

AllDataInputs ==
    {<<>>}
    \cup {<< <<TOR, PyList(s)>> >> : s \in CleanLists}
    \cup {<< <<BOS, PyList(s)>> >> : s \in SeqsUpTo(CleanEntries, 1)}
    \cup {<< <<TOR, PyList(p[1])>>, <<FLA, PyList(p[2])>> >> :
            p \in UNION {Splits(s) : s \in CleanLists}}
    \cup {<< <<TOR, bad>>, <<FLA, PyList(<<e>>)>> >> :
            bad \in BadTeamVals \cup {PyList(<<b>>) : b \in BadEntries},
            e \in {Player(PyInt(1), PyStr(FLA), Centre)}}
    \cup {<< <<TOR, PyList(<<e>>)>>, <<FLA, bad>> >> :
            bad \in BadTeamVals \cup {PyList(<<b>>) : b \in BadEntries},
            e \in {Player(PyInt(1), PyStr(TOR), Centre)}}

\* Two JSON objects for the files with several chunks
OneTorPlayer ==
    PyODict(<< <<TOR, PyList(<<Player(PyInt(1), PyStr(TOR), Centre)>>)>> >>)
OneFlaPlayer ==
    PyODict(<< <<FLA, PyList(<<Player(PyInt(2), PyStr(FLA), Defence)>>)>> >>)

\* Files without a marker, with several, with nothing or with text that is no
\* JSON after the last one.
MarkerFiles ==
    {TextFile(content) :
        content \in {<<>>, <<WhiteSpace>>, <<Marker>>,
                     <<JsonText(OneTorPlayer)>>,
                     <<WhiteSpace, JsonText(OneFlaPlayer), WhiteSpace>>,
                     <<LogText, JsonText(OneTorPlayer)>>,
                     <<JsonText(OneTorPlayer), Marker, LogText>>,
                     <<Marker, JsonText(OneTorPlayer), Marker>>,
                     <<Marker, JsonText(OneTorPlayer), JsonText(OneFlaPlayer)>>,
                     <<Marker, JsonText(OneTorPlayer), WhiteSpace, LogText>>,
                     <<LogText, Marker, JsonText(OneTorPlayer), LogText,
                       Marker, WhiteSpace, JsonText(OneFlaPlayer), WhiteSpace>>,
                     <<Marker, Marker, JsonText(OneFlaPlayer)>>,
                     <<JsonText(OneFlaPlayer), Marker, JsonText(OneTorPlayer)>>}}

JsonFileInputs ==
    {UnreadableFile, InvalidJsonFile, JsonFile(PyNone), JsonFile(PyList(<<>>))}
    \cup {JsonFile(PyODict(items)) : items \in AllDataInputs}
    \cup MarkerFiles

-----------------------------------------------------------------------------
(* The assembler as a state machine: one create_dataset call on one file *)

DatasetInit ==
    /\ json_file \in JsonFileInputs
    /\ dataset = NotCalled
    /\ player_data = Idle /\ extracted = Idle
    /\ http = Idle /\ requests = Idle /\ api_result = Idle
    /\ trainer = Idle /\ disk = Idle /\ ml_result = Idle /\ history = Idle
    /\ evaluator = Idle /\ ev_result = Idle

CreateDataset ==
    /\ dataset = NotCalled
    /\ dataset' = create_dataset(json_file)
    /\ UNCHANGED <<json_file, exVars, apiVars, mlVars, evVars>>

DatasetNext == CreateDataset

SpecDataset == DatasetInit /\ [][DatasetNext]_vars

-----------------------------------------------------------------------------
(* NHLStats: get_team_roster and get_player_stats *)

\* Texts of the client are sequences of fragments, to be read concatenated.
NHL_API_BASE == <<"https://api-web.nhle.com/v1">>

\* self.headers
Headers == [Accept |-> "application/json"]

\* f"{NHL_API_BASE}/roster/{team_abbrev}/current"
RosterUrl(team_abbrev) == NHL_API_BASE \o <<"/roster/">> \o team_abbrev \o <<"/current">>

\* f"{NHL_API_BASE}/player/{player_id}/landing"
PlayerUrl(player_id) ==
    NHL_API_BASE \o <<"/player/">> \o IntToStr(player_id) \o <<"/landing">>

\* What the remote end does with one GET: the connection fails, or a response
\* arrives with a status and a body that is JSON text or is not.
NotJson == [t |-> "notjson", v |-> 0]
TransportError == [kind |-> "transport_error", status |-> 0, body |-> NotJson]
Response(status, body) == [kind |-> "response", status |-> status, body |-> body]

\* requests.get(...); response.raise_for_status(); response.json():
\* raise_for_status raises for the statuses 400..599 only.
Fetch(resp) ==
    IF resp.kind = "transport_error" THEN Raised("ConnectionError")
    ELSE IF resp.status >= 400 /\ resp.status < 600 THEN Raised("HTTPError")
    ELSE IF resp.body = NotJson THEN Raised("JSONDecodeError")
    ELSE Returned(resp.body)

\* The except clause of both operations, as a variant that lets the exception
\* through.
CatchNothing(result, fallback) == result

\* except Exception: log the error and return the fallback value.
CatchAll(result, fallback) ==
    IF result.exc # "none" THEN Returned(fallback) ELSE result

\* The position groups, as a variant that reads the goalies first.
PlayerTypesGoaliesFirst ==
    << [key |-> "goalies", text |-> <<"goalies">>],
       [key |-> "forwards", text |-> <<"forwards">>],
       [key |-> "defensemen", text |-> <<"defensemen">>] >>

\* The three position groups, in the order they are read; text is the key as a
\* str value.
PlayerTypes ==
    << [key |-> "forwards", text |-> <<"forwards">>],
       [key |-> "defensemen", text |-> <<"defensemen">>],
       [key |-> "goalies", text |-> <<"goalies">>] >>

\* player_type in roster_data
KeyIn(pt, x) ==
    CASE x.t = "dict" -> Returned(pt.key \in DOMAIN x.v)
      [] x.t = "list" -> Returned(\E i \in 1..Len(x.v) : x.v[i] = PyStr(pt.text))
      [] x.t \in {"null", "int", "nan", "float"} -> Raised("TypeError")

\* roster_data[player_type], once player_type is known to be in roster_data: a
\* list cannot be indexed by a str.
GroupOf(pt, x) ==
    CASE x.t = "dict" -> Returned(x.v[pt.key])
      [] x.t = "list" -> Raised("TypeError")

\* Lines 40-44: all_players after the position groups from the i-th on have
\* been read; extend() iterates the group.
RECURSIVE ExtendGroups(_, _, _)
ExtendGroups(all_players, roster_data, i) ==
    IF i > Len(PlayerTypes) THEN Returned(PyList(all_players))
    ELSE LET present == KeyIn(PlayerTypes[i], roster_data)
         IN  IF present.exc # "none" THEN present
             ELSE IF ~present.value THEN ExtendGroups(all_players, roster_data, i + 1)
             ELSE LET value == GroupOf(PlayerTypes[i], roster_data)
                      group == IF value.exc # "none" THEN value ELSE IterOf(value.value)
                  IN  IF group.exc # "none" THEN group
                      ELSE ExtendGroups(all_players \o group.value, roster_data, i + 1)

\* get_team_roster, given what the remote end does with its GET
get_team_roster(resp) ==
    LET roster_data == Fetch(resp)
        body == IF roster_data.exc # "none" THEN roster_data
                ELSE ExtendGroups(<<>>, roster_data.value, 1)
    IN  CatchAll(body, PyList(<<>>))

\* Lines 65-72: the name lookups of the log line need stats_data, and each of
\* its two name fields, to be a mapping.
StatsOrNone(stats_data) ==
    IF ~Truthy(stats_data) THEN Returned(PyNone)
    ELSE IF stats_data.t # "dict" THEN Raised("AttributeError")
    ELSE IF Get(stats_data.v, "firstName", PyDict(EmptyDict)).t # "dict"
         THEN Raised("AttributeError")
    ELSE IF Get(stats_data.v, "lastName", PyDict(EmptyDict)).t # "dict"
         THEN Raised("AttributeError")
    ELSE Returned(stats_data)

\* get_player_stats, given what the remote end does with its GET
get_player_stats(resp) ==
    LET stats_data == Fetch(resp)
        body == IF stats_data.exc # "none" THEN stats_data
                ELSE StatsOrNone(stats_data.value)
    IN  CatchAll(body, PyNone)

\* self.teams (its keys, in the order the dict iterates them)
Teams == <<TOR, FLA>>

\* The GET of one request, as it is logged
Request(url) == [url |-> url, headers |-> Headers]

\* What the remote end does with the k-th GET of a call: the answers of the
\* script in order, and a failed connection once the script is used up.
Answer(script, k) == IF k <= Len(script) THEN script[k] ELSE TransportError

\* What a loop has come to: the exception that ended it, its list so far, and
\* the GETs issued since the call began.
Progress(exc, value, gets) == [exc |-> exc, value |-> value, gets |-> gets]

\* Lines 91-96: the loop over the roster from its i-th entry on. player.get
\* needs the entry to be a mapping; an id that is missing, None or 0 is passed
\* over without a request. The ids of the model are ints.
RECURSIVE PlayerLoop(_, _, _, _, _)
PlayerLoop(roster, i, team_stats, script, gets) ==
    IF i > Len(roster) THEN Progress("none", team_stats, gets)
    ELSE IF roster[i].t # "dict" THEN Progress("AttributeError", team_stats, gets)
    ELSE LET player_id == GetOrNone(roster[i].v, "id")
         IN  IF ~Truthy(player_id)
             THEN PlayerLoop(roster, i + 1, team_stats, script, gets)
             ELSE LET stats == get_player_stats(Answer(script, Len(gets) + 1)).value
                  IN  PlayerLoop(roster, i + 1,
                                 IF Truthy(stats) THEN Append(team_stats, stats)
                                 ELSE team_stats,
                                 script,
                                 Append(gets, Request(PlayerUrl(player_id.v))))

\* Lines 83-100: the loop over the teams from the t-th on; all_stats holds the
\* <<team, list>> items assigned so far.
RECURSIVE TeamLoop(_, _, _, _)
TeamLoop(t, all_stats, script, gets) ==
    IF t > Len(Teams) THEN Progress("none", PyODict(all_stats), gets)
    ELSE LET roster == get_team_roster(Answer(script, Len(gets) + 1)).value
             players == PlayerLoop(roster.v, 1, <<>>, script,
                                   Append(gets, Request(RosterUrl(Teams[t]))))
         IN  IF players.exc # "none" THEN Progress(players.exc, PyNone, players.gets)
             ELSE TeamLoop(t + 1,
                           Append(all_stats, <<Teams[t], PyList(players.value)>>),
                           script, players.gets)

\* get_all_team_stats(), the remote end answering its GETs by the script
get_all_team_stats(script) == TeamLoop(1, <<>>, script, <<>>)

-----------------------------------------------------------------------------
(* Inputs of the stats client *)

Stub(i) == PyDict([id |-> PyInt(i)])

RosterBodies ==
    {PyNone, PyInt(1), PyList(<<>>), PyList(<<PyStr(<<"forwards">>)>>)}
    \cup {PyDict(MkDict([forwards |-> f, defensemen |-> d, goalies |-> g,
                         coaches |-> c])) :
            f \in {Absent, PyNone, PyList(<<Stub(1)>>), PyList(<<Stub(2), Stub(1)>>)},
            d \in {Absent, PyList(<<Stub(3)>>)},
            g \in {Absent, PyList(<<>>), PyList(<<Stub(4)>>)},
            c \in {Absent, PyList(<<Stub(9)>>)}}

StatsBodies ==
    {PyNone, PyInt(0), PyInt(3), PyList(<<>>), PyList(<<PyInt(1)>>), PyDict(EmptyDict)}
    \cup {PyDict(MkDict([playerId |-> PyInt(1), firstName |-> f, lastName |-> l])) :
            f \in {Absent, PyNone, PyStr(<<"J">>), PyDict([default |-> PyStr(<<"J">>)])},
            l \in {Absent, PyDict([default |-> PyStr(<<"D">>)])}}

\* Failures, and responses of every status class, around the bodies.
ResponsesWith(bodies) ==
    {TransportError}
    \cup {Response(200, b) : b \in bodies \cup {NotJson}}
    \cup {Response(st, b) : st \in {204, 300, 404, 500},
                            b \in {NotJson, PyDict(EmptyDict),
                                    CHOOSE x \in bodies : x.t = "dict" /\ DOMAIN x.v # {}}}

TeamCodes == {TOR, FLA, BOS}
PlayerIds == 1..MaxId

-----------------------------------------------------------------------------
(* The stats client as a state machine: calls in any order, each answered by
   the remote end in any way *)

ApiInit ==
    /\ http = TransportError
    /\ requests = <<>>
    /\ api_result = [op |-> "none", arg |-> PyNone, exc |-> "not_called",
                     value |-> PyNone]
    /\ player_data = Idle /\ extracted = Idle
    /\ json_file = Idle /\ dataset = Idle
    /\ trainer = Idle /\ disk = Idle /\ ml_result = Idle /\ history = Idle
    /\ evaluator = Idle /\ ev_result = Idle

\* The GET of an operation, as a variant that sends the request a second time.
Get1Again(url, resp) ==
    /\ requests' = requests \o << [url |-> url, headers |-> Headers],
                                  [url |-> url, headers |-> Headers] >>
    /\ http' = resp

\* requests.get(url, headers=self.headers), answered by resp
Get1(url, resp) ==
    /\ requests' = Append(requests, [url |-> url, headers |-> Headers])
    /\ http' = resp

GetTeamRoster ==
    \E team_abbrev \in TeamCodes, resp \in ResponsesWith(RosterBodies) :
        /\ Len(requests) < MaxGets
        /\ Get1(RosterUrl(team_abbrev), resp)
        /\ LET r == get_team_roster(resp)
           IN  api_result' = [op |-> "get_team_roster", arg |-> PyStr(team_abbrev),
                              exc |-> r.exc, value |-> r.value]
        /\ UNCHANGED <<exVars, dsVars, mlVars, evVars>>

GetPlayerStats ==
    \E player_id \in PlayerIds, resp \in ResponsesWith(StatsBodies) :
        /\ Len(requests) < MaxGets
        /\ Get1(PlayerUrl(player_id), resp)
        /\ LET r == get_player_stats(resp)
           IN  api_result' = [op |-> "get_player_stats", arg |-> PyInt(player_id),
                              exc |-> r.exc, value |-> r.value]
        /\ UNCHANGED <<exVars, dsVars, mlVars, evVars>>

ApiNext == GetTeamRoster \/ GetPlayerStats

SpecApi == ApiInit /\ [][ApiNext]_vars

-----------------------------------------------------------------------------
(* get_all_team_stats as a state machine: one call, the remote end following
   a script of answers *)

\* The number of answers in a script
MaxAnswers == 4

\* A stats record with a name, one whose firstName is a plain str, a roster
\* with two ids and an entry without one, a roster of one, a roster that lists
\* bare ids, an empty mapping, and two failures.
Answers ==
    {TransportError,
     Response(500, PyDict(EmptyDict)),
     Response(200, PyDict(EmptyDict)),
     Response(200, PyDict([playerId |-> PyInt(1),
                           firstName |-> PyDict([default |-> PyStr(<<"J">>)])])),
     Response(200, PyDict([playerId |-> PyInt(2), firstName |-> PyStr(<<"J">>)])),
     Response(200, PyDict([forwards |-> PyList(<<Stub(1), PyDict([id |-> PyInt(0)])>>),
                           goalies |-> PyList(<<Stub(2)>>)])),
     Response(200, PyDict([defensemen |-> PyList(<<Stub(2)>>)])),
     Response(200, PyDict([forwards |-> PyList(<<PyInt(1)>>)]))}

Scripts == [1..MaxAnswers -> Answers]

\* Before the call: http holds the script of the remote end.
AllStatsInit ==
    /\ http \in Scripts
    /\ requests = <<>>
    /\ api_result = [op |-> "none", arg |-> PyNone, exc |-> "not_called",
                     value |-> PyNone]
    /\ player_data = Idle /\ extracted = Idle
    /\ json_file = Idle /\ dataset = Idle
    /\ trainer = Idle /\ disk = Idle /\ ml_result = Idle /\ history = Idle
    /\ evaluator = Idle /\ ev_result = Idle

GetAllTeamStats ==
    /\ api_result.op = "none"
    /\ \E r \in {get_all_team_stats(http)} :
          /\ requests' = requests \o r.gets
          /\ api_result' = [op |-> "get_all_team_stats", arg |-> PyNone,
                            exc |-> r.exc, value |-> r.value]
    /\ UNCHANGED <<http, exVars, dsVars, mlVars, evVars>>

AllStatsNext == GetAllTeamStats

SpecAllStats == AllStatsInit /\ [][AllStatsNext]_vars

-----------------------------------------------------------------------------
(* DataFrames and rational arithmetic *)

\* A DataFrame is [columns |-> sequence of column names, rows |-> sequence of
\* rows], a row being the sequence of its cells in column order. A cell is
\* PyInt(n), PyNaN (missing), PyStr(s), or a rational written PyQuot(a, b).

RECURSIVE Gcd(_, _)
Gcd(a, b) == IF b = 0 THEN a ELSE Gcd(b, a % b)

Abs(a) == IF a < 0 THEN -a ELSE a

\* The rational a / b (b # 0) in lowest terms with a positive denominator.
Rat(a, b) ==
    LET g == Gcd(Abs(a), Abs(b))
        sgn == IF b < 0 THEN -1 ELSE 1
    IN  <<sgn * (a \div g), sgn * (b \div g)>>

RatAdd(p, q) == Rat(p[1] * q[2] + q[1] * p[2], p[2] * q[2])
RatSub(p, q) == Rat(p[1] * q[2] - q[1] * p[2], p[2] * q[2])
RatMul(p, q) == Rat(p[1] * q[1], p[2] * q[2])

\* The rational value of a numeric cell.
RatOf(cell) == IF cell.t = "int" THEN <<cell.v, 1>> ELSE Rat(cell.v[1], cell.v[2])

RECURSIVE RatSum(_)
RatSum(qs) == IF qs = <<>> THEN <<0, 1>> ELSE RatAdd(Head(qs), RatSum(Tail(qs)))

ColIndex(columns, c) == CHOOSE i \in 1..Len(columns) : columns[i] = c
HasColumn(df, c) == \E i \in 1..Len(df.columns) : df.columns[i] = c

\* df[c]: the cells of column c, in row order
Column(df, c) == [i \in 1..Len(df.rows) |-> df.rows[i][ColIndex(df.columns, c)]]

\* df[cols]: the frame restricted to cols, in that order
Project(df, cols) ==
    [columns |-> cols,
     rows |-> [i \in 1..Len(df.rows) |->
                 [j \in 1..Len(cols) |-> df.rows[i][ColIndex(df.columns, cols[j])]]]]

\* df[cols] for an attribute cols: a list of column names, or None; a name that
\* is no column of df (None is none) is a KeyError.
Select(df, cols) ==
    IF cols.t # "list" THEN Raised("KeyError")
    ELSE IF \E i \in 1..Len(cols.v) : ~HasColumn(df, cols.v[i]) THEN Raised("KeyError")
    ELSE Returned(Project(df, cols.v))

\* Series.mean() of one column (pandas >= 2.1): missing cells are skipped, a
\* column of missing cells only has mean NaN, a str cell is a TypeError.
ColumnMean(cells) ==
    IF \E i \in 1..Len(cells) : cells[i].t = "str" THEN Raised("TypeError")
    ELSE LET present == SelectSeq(cells, LAMBDA c : c.t # "nan")
         IN  IF present = <<>> THEN Returned(PyNaN)
             ELSE LET m == RatMul(RatSum([i \in 1..Len(present) |-> RatOf(present[i])]),
                                  <<1, Len(present)>>)
                  IN  Returned(PyQuot(m[1], m[2]))

\* df.mean(): the mean of every column, or the first exception
FrameMeans(df) ==
    LET means == [j \in 1..Len(df.columns) |-> ColumnMean(Column(df, df.columns[j]))]
    IN  IF \E j \in 1..Len(means) : means[j].exc # "none"
        THEN Raised("TypeError")
        ELSE Returned([j \in 1..Len(means) |-> means[j].value])

\* df.fillna(means): every missing cell becomes the mean of its column (and
\* stays missing when that mean is NaN)
FillNa(df, means) ==
    [columns |-> df.columns,
     rows |-> [i \in 1..Len(df.rows) |->
                 [j \in 1..Len(df.columns) |->
                     IF df.rows[i][j].t = "nan" THEN means[j] ELSE df.rows[i][j]]]]

-----------------------------------------------------------------------------
(* StandardScaler *)

\* StandardScaler(): no fitted attribute yet.
UnfittedScaler ==
    [fitted |-> FALSE, feature_names_in |-> <<>>, n_samples_seen |-> 0,
     mean |-> <<>>, var |-> <<>>]

\* mean_ and var_ of one column (missing cells are disregarded); the variance
\* is the mean of the squares minus the square of the mean.
ScalerColumnStats(cells) ==
    LET present == SelectSeq(cells, LAMBDA c : c.t # "nan")
        qs == [i \in 1..Len(present) |-> RatOf(present[i])]
        n == <<1, Len(present)>>
        mean == RatMul(RatSum(qs), n)
        meansq == RatMul(RatSum([i \in 1..Len(qs) |-> RatMul(qs[i], qs[i])]), n)
    IN  IF present = <<>> THEN [mean |-> PyNaN, var |-> PyNaN]
        ELSE [mean |-> PyQuot(mean[1], mean[2]),
              var |-> LET v == RatSub(meansq, RatMul(mean, mean))
                      IN  PyQuot(v[1], v[2])]

\* scaler.fit(X) on a frame of numeric cells with at least one row and one
\* column.
FittedScaler(X) ==
    [fitted |-> TRUE, feature_names_in |-> X.columns, n_samples_seen |-> Len(X.rows),
     mean |-> [j \in 1..Len(X.columns) |->
                 ScalerColumnStats(Column(X, X.columns[j])).mean],
     var |-> [j \in 1..Len(X.columns) |->
                 ScalerColumnStats(Column(X, X.columns[j])).var]]

\* A scaled cell (x - mean) / sqrt(var), kept as the three numbers it is made of.
ScaledCell(x, mean, var) == [t |-> "scaled", v |-> <<x, mean, var>>]

\* scaler.transform(X) of a fitted scaler on a frame with its columns
Transform(scaler, X) ==
    [columns |-> X.columns,
     rows |-> [i \in 1..Len(X.rows) |->
                 [j \in 1..Len(X.columns) |->
                     ScaledCell(X.rows[i][j], scaler.mean[j], scaler.var[j])]]]

\* The element of a singleton. The({e(x) : x \in {v}}) is e(v) with v computed
\* once, however often e refers to x.
The(S) == CHOOSE r \in S : TRUE

\* scaler.fit_transform(X): fit() first drops every fitted attribute, then
\* validates X (an array without rows or without columns is a ValueError), then
\* computes the statistics. The result is [scaler, exc, value].
FitTransform(scaler, X) ==
    IF X.rows = <<>> \/ X.columns = <<>>
    THEN [scaler |-> UnfittedScaler, exc |-> "ValueError", value |-> PyNone]
    ELSE The({[scaler |-> fitted, exc |-> "none", value |-> Transform(fitted, X)] :
                fitted \in {FittedScaler(X)}})

\* scaler.transform(X): NotFittedError before any fit; the columns must be the
\* ones seen in fit, in that order; X needs at least one row.
ScalerTransform(scaler, X) ==
    IF ~scaler.fitted THEN Raised("NotFittedError")
    ELSE IF X.columns # scaler.feature_names_in THEN Raised("ValueError")
    ELSE IF X.rows = <<>> THEN Raised("ValueError")
    ELSE Returned(Transform(scaler, X))

-----------------------------------------------------------------------------
(* train_test_split(X, y, test_size=0.2, random_state=42) *)

\* RandomState(42).permutation(n), as row numbers counted from 1.
Permutation42(n) ==
    CASE n = 1 -> <<1>>
      [] n = 2 -> <<2, 1>>
      [] n = 3 -> <<1, 2, 3>>
      [] n = 4 -> <<2, 4, 1, 3>>
      [] n = 5 -> <<2, 5, 3, 1, 4>>

\* ceil(0.2 * n), for the row counts of the model
TestCount(n) == (n + 4) \div 5

\* The rows of the test partition and of the train partition, in the order of
\* the permutation; a split that leaves no train row is a ValueError.
TrainTestSplit(n) ==
    IF n = 0 \/ n - TestCount(n) = 0 THEN Raised("ValueError")
    ELSE Returned([test |-> SubSeq(Permutation42(n), 1, TestCount(n)),
                   train |-> SubSeq(Permutation42(n), TestCount(n) + 1, n)])

\* The rows idx of a frame or of a column, in that order
TakeRows(rows, idx) == [i \in 1..Len(idx) |-> rows[idx[i]]]

-----------------------------------------------------------------------------
(* MLDataProcessor *)

\* None, for an attribute that holds an object otherwise
None == PyNone

\* A column name held by an attribute
ColName(c) == [t |-> "str", v |-> c]

\* MLDataProcessor(): lines 209-212
NewProcessor ==
    [scaler |-> UnfittedScaler, feature_columns |-> None, target_column |-> None]

\* The outcome of a method: the object after the call, the exception raised
\* (with its message) or the value returned.
Outcome(self, exc, value) == [self |-> self, exc |-> exc, value |-> value]

NotFittedMessage == "Scaler has not been fitted. Call prepare_features first."

\* prepare_features, as a variant that splits first and fits the scaler on the
\* rows of the train partition only.
PrepareFeaturesFitOnTrain(dp, df, target_col) ==
    LET feature_columns == SelectSeq(df.columns, LAMBDA col : col # target_col)
        dp1 == [dp EXCEPT !.target_column = ColName(target_col),
                          !.feature_columns = PyList(feature_columns)]
        Scaled(filled, split) ==
            LET X_train == [columns |-> feature_columns,
                            rows |-> TakeRows(filled.rows, split.train)]
                X_test == [columns |-> feature_columns,
                           rows |-> TakeRows(filled.rows, split.test)]
                y == Column(df, target_col)
                fitted == FittedScaler(X_train)
            IN  Outcome([dp1 EXCEPT !.scaler = fitted], "none",
                        [X_train |-> Transform(fitted, X_train),
                         X_test |-> Transform(fitted, X_test),
                         y_train |-> TakeRows(y, split.train),
                         y_test |-> TakeRows(y, split.test)])
        Split(X, means) ==
            LET split == TrainTestSplit(Len(df.rows))
            IN  IF means.exc # "none" THEN Outcome(dp1, means.exc, "")
                ELSE IF split.exc # "none" THEN Outcome(dp1, split.exc, "")
                ELSE Scaled(FillNa(X, means.value), split.value)
    IN  IF ~HasColumn(df, target_col) THEN Outcome(dp1, "KeyError", target_col)
        ELSE The({The({Split(X, means) : means \in {FrameMeans(X)}}) :
                    X \in {Project(df, feature_columns)}})

\* prepare_features(df, target_col): lines 226-247. The processor is changed
\* as far as the call got when it raises.
prepare_features(dp, df, target_col) ==
    LET feature_columns == SelectSeq(df.columns, LAMBDA col : col # target_col)
        dp1 == [dp EXCEPT !.target_column = ColName(target_col),
                          !.feature_columns = PyList(feature_columns)]
        Split(fit) ==
            LET dp2 == [dp1 EXCEPT !.scaler = fit.scaler]
                y == Column(df, target_col)
                split == TrainTestSplit(Len(df.rows))
            IN  IF fit.exc # "none" THEN Outcome(dp2, fit.exc, "")
                ELSE IF split.exc # "none" THEN Outcome(dp2, split.exc, "")
                ELSE Outcome(dp2, "none",
                        [X_train |-> [columns |-> feature_columns,
                                      rows |-> TakeRows(fit.value.rows,
                                                        split.value.train)],
                         X_test |-> [columns |-> feature_columns,
                                     rows |-> TakeRows(fit.value.rows,
                                                       split.value.test)],
                         y_train |-> TakeRows(y, split.value.train),
                         y_test |-> TakeRows(y, split.value.test)])
        Scale(X, means) ==
            IF means.exc # "none" THEN Outcome(dp1, means.exc, "")
            ELSE The({The({Split(fit) : fit \in {FitTransform(dp.scaler, filled)}}) :
                        filled \in {FillNa(X, means.value)}})
    IN  IF ~HasColumn(df, target_col) THEN Outcome(dp1, "KeyError", target_col)
        ELSE The({The({Scale(X, means) : means \in {FrameMeans(X)}}) :
                    X \in {Project(df, feature_columns)}})

\* The guard of process_new_data, as a variant that never raises.
NotPreparedNever(dp) == FALSE

\* if self.feature_columns is None
NotPrepared(dp) == dp.feature_columns = None

\* process_new_data, as a variant that fits the scaler on the new data.
ProcessNewDataRefit(dp, df) ==
    IF NotPrepared(dp)
    THEN [self |-> dp, exc |-> "ValueError", value |-> NotFittedMessage, df |-> df]
    ELSE LET Refit(X) ==
                 IF X.exc # "none"
                 THEN [self |-> dp, exc |-> X.exc, value |-> "", df |-> df]
                 ELSE The({[self |-> [dp EXCEPT !.scaler = fit.scaler],
                            exc |-> fit.exc,
                            value |-> IF fit.exc = "none" THEN fit.value ELSE "",
                            df |-> df] :
                             fit \in {FitTransform(dp.scaler, X.value)}})
             Scale(means) ==
                 IF means.exc # "none"
                 THEN [self |-> dp, exc |-> means.exc, value |-> "", df |-> df]
                 ELSE The({Refit(X) :
                             X \in {Select(FillNa(df, means.value), dp.feature_columns)}})
         IN  The({Scale(means) : means \in {FrameMeans(df)}})

\* process_new_data(df): lines 259-269. The outcome carries, next to the
\* processor, the caller's frame as it is after the call: fillna and the
\* column selection build new frames and only rebind the parameter.
process_new_data(dp, df) ==
    LET Out(exc, value) == [self |-> dp, exc |-> exc, value |-> value, df |-> df]
    IN  IF NotPrepared(dp) THEN Out("ValueError", NotFittedMessage)
        ELSE LET Scaled(X) ==
                     IF X.exc # "none" THEN Out(X.exc, "")
                     ELSE The({Out(scaled.exc,
                                   IF scaled.exc = "none" THEN scaled.value ELSE "") :
                                 scaled \in {ScalerTransform(dp.scaler, X.value)}})
                 Scale(means) ==
                     IF means.exc # "none" THEN Out(means.exc, "")
                     ELSE The({Scaled(X) :
                                 X \in {Select(FillNa(df, means.value),
                                               dp.feature_columns)}})
             IN  The({Scale(means) : means \in {FrameMeans(df)}})

-----------------------------------------------------------------------------
(* ModelTrainer *)

\* ModelTrainer(model_type): lines 16-25
NewTrainer(model_type) ==
    [model_type |-> model_type, model |-> None, data_processor |-> NewProcessor]

SupportedModelTypes == {"random_forest", "gradient_boosting"}

\* An estimator that has not been fitted.
UnfittedModel(model_type) ==
    [t |-> "model", kind |-> model_type, fitted |-> FALSE,
     feature_names_in |-> <<>>, X |-> <<>>, y |-> <<>>]

\* model.fit(X_train, y_train): the estimator is determined by its family, its
\* fixed seed and the training partition; a target that is missing or not a
\* number is a ValueError, raised before any attribute is set.
ModelFit(model, X_train, y_train) ==
    IF \E i \in 1..Len(y_train) : y_train[i].t \in {"nan", "str"}
    THEN Outcome(model, "ValueError", "")
    ELSE Outcome([model EXCEPT !.fitted = TRUE, !.feature_names_in = X_train.columns,
                               !.X = X_train.rows, !.y = y_train],
                 "none", None)

\* The keys of the metrics, as a variant without the r2 scores.
MetricKeysNoR2 == {"train_mse", "test_mse", "train_rmse", "test_rmse"}

MetricKeys ==
    {"train_mse", "test_mse", "train_rmse", "test_rmse", "train_r2", "test_r2"}

\* Lines 69-80: the metrics compare the targets with the predictions; a
\* missing target in the test partition is a ValueError.
Metrics(model, parts) ==
    IF \E i \in 1..Len(parts.y_test) : parts.y_test[i].t \in {"nan", "str"}
    THEN Raised("ValueError")
    ELSE Returned([k \in MetricKeys |-> "float"])

\* create_model(): lines 27-47
create_model(self) ==
    IF self.model_type = "random_forest"
    THEN Outcome([self EXCEPT !.model = UnfittedModel("random_forest")], "none", None)
    ELSE IF self.model_type = "gradient_boosting"
    THEN Outcome([self EXCEPT !.model = UnfittedModel("gradient_boosting")], "none", None)
    ELSE Outcome(self, "ValueError", "Unsupported model type")

\* train(data, target_col): lines 60-82
train(self, data, target_col) ==
    LET Fit(prep) ==
            LET self1 == [self EXCEPT !.data_processor = prep.self]
                created == create_model(self1)
                fit == ModelFit(created.self.model,
                                prep.value.X_train, prep.value.y_train)
                self2 == [self1 EXCEPT !.model = fit.self]
                metrics == Metrics(fit.self, prep.value)
            IN  IF prep.exc # "none" THEN Outcome(self1, prep.exc, prep.value)
                ELSE IF created.exc # "none"
                THEN Outcome(self1, created.exc, created.value)
                ELSE IF fit.exc # "none" THEN Outcome(self2, fit.exc, "")
                ELSE IF metrics.exc # "none" THEN Outcome(self2, metrics.exc, "")
                ELSE Outcome(self2, "none", metrics.value)
    IN  The({Fit(prep) :
               prep \in {prepare_features(self.data_processor, data, target_col)}})

NoModelMessage == "No model to save. Train a model first."

\* if self.model is None
NoModel(self) == self.model = None

\* The bundle of save_model, as a variant that stores a fresh scaler.
BundleFreshScaler(self) ==
    [model |-> self.model, scaler |-> UnfittedScaler,
     feature_columns |-> self.data_processor.feature_columns,
     model_type |-> self.model_type]

\* The bundle written by save_model (lines 97-102)
Bundle(self) ==
    [model |-> self.model, scaler |-> self.data_processor.scaler,
     feature_columns |-> self.data_processor.feature_columns,
     model_type |-> self.model_type]

\* No file at a path.
NoFile == [t |-> "nofile", v |-> 0]

\* save_model(filepath), on the files files: [self, files, exc, value]
save_model(self, files, filepath) ==
    IF NoModel(self)
    THEN [self |-> self, files |-> files, exc |-> "ValueError", value |-> NoModelMessage]
    ELSE [self |-> self, files |-> [files EXCEPT ![filepath] = Bundle(self)],
          exc |-> "none", value |-> None]

\* ModelTrainer.load_model(filepath): the trainer built from the bundle
load_model(files, filepath) ==
    IF files[filepath] = NoFile THEN Outcome(None, "FileNotFoundError", "")
    ELSE LET model_data == files[filepath]
         IN  Outcome([model_type |-> model_data.model_type,
                      model |-> model_data.model,
                      data_processor |->
                          [NewProcessor EXCEPT
                              !.scaler = model_data.scaler,
                              !.feature_columns = model_data.feature_columns]],
                     "none", None)

\* create_feature_importance_df(model, feature_names): the importances of a
\* fitted model, one per feature it was fitted on. None has no
\* feature_importances_ and an unfitted model raises NotFittedError, which is an
\* AttributeError: the except branch gives null importances, and len(None) is a
\* TypeError there. The two columns of the frame must be equally long; a
\* feature_names of None is broadcast.
create_feature_importance_df(model, feature_names) ==
    IF model = None \/ ~model.fitted
    THEN IF feature_names = None THEN Raised("TypeError")
         ELSE Returned([feature |-> feature_names.v,
                        importance |-> [i \in 1..Len(feature_names.v) |-> None]])
    ELSE IF feature_names = None
    THEN Returned([feature |-> [i \in 1..Len(model.feature_names_in) |-> None],
                   importance |-> [i \in 1..Len(model.feature_names_in) |-> "float"]])
    ELSE IF Len(model.feature_names_in) # Len(feature_names.v) THEN Raised("ValueError")
    ELSE Returned([feature |-> feature_names.v,
                   importance |-> [i \in 1..Len(feature_names.v) |-> "float"]])

\* get_feature_importance(): lines 133-142
get_feature_importance(self) ==
    IF NoModel(self) THEN Outcome(self, "ValueError", NoModelMessage)
    ELSE The({Outcome(self, df.exc, IF df.exc = "none" THEN df.value ELSE "") :
                df \in {create_feature_importance_df(
                            self.model, self.data_processor.feature_columns)}})

-----------------------------------------------------------------------------
(* Inputs of the ML data processor and the trainer *)

Layouts == {<<"x", "points">>, <<"points", "z", "x">>}

\* Row i of a frame without defects: x = i, z = 2, points = i + 1.
CleanCell(col, i) ==
    CASE col = "x" -> PyInt(i)
      [] col = "z" -> PyInt(2)
      [] col = "points" -> PyInt(i + 1)

CleanFrame(columns, n) ==
    [columns |-> columns,
     rows |-> [i \in 1..n |-> [j \in 1..Len(columns) |-> CleanCell(columns[j], i)]]]

\* frame with the cell of column col in row i replaced
WithCell(df, col, i, cell) ==
    [df EXCEPT !.rows[i][ColIndex(df.columns, col)] = cell]

\* Frames of 0..MaxRows rows without defects, and frames of MaxRows rows with
\* one: a missing feature, a str feature, a missing target in the first or in
\* the last row.
Frames ==
    {CleanFrame(l, n) : l \in Layouts, n \in 0..MaxRows}
    \cup {WithCell(CleanFrame(<<"x", "points">>, MaxRows), d[1], d[2], d[3]) :
            d \in {<<"x", 1, PyNaN>>, <<"x", 1, PyStr(<<"s">>)>>,
                   <<"points", 1, PyNaN>>, <<"points", MaxRows, PyNaN>>}}

TargetColumns == {"points", "goals"}
ModelTypes == SupportedModelTypes \cup {"svm"}
Paths == {"model.joblib"}

-----------------------------------------------------------------------------
(* The trainer and its data processor as a state machine: calls in any order *)

\* What has happened to the trainer object at hand: whether prepare_features
\* was ever entered on its processor and whether it ever returned, whether
\* process_new_data ever refused to work, whether a train ever returned,
\* whether the object came from load_model.
NoHistory ==
    [prepare_run |-> FALSE, prepare_completed |-> FALSE, refused |-> FALSE,
     train_completed |-> FALSE, loaded |-> FALSE]

MLInit ==
    /\ trainer \in {NewTrainer(mt) : mt \in ModelTypes}
    /\ disk = [path \in Paths |-> NoFile]
    /\ ml_result = [n |-> 0, op |-> "none", exc |-> "not_called", value |-> None]
    /\ history = NoHistory
    /\ player_data = Idle /\ extracted = Idle
    /\ json_file = Idle /\ dataset = Idle
    /\ http = Idle /\ requests = Idle /\ api_result = Idle
    /\ evaluator = Idle /\ ev_result = Idle

\* The record of a call that ended with exc and value.
Called(op, exc, value) ==
    ml_result' = [n |-> ml_result.n + 1, op |-> op, exc |-> exc, value |-> value]

PrepareFeatures ==
    \E df \in Frames, target_col \in TargetColumns :
        /\ ml_result.n < MaxCalls
        /\ \E r \in {prepare_features(trainer.data_processor, df, target_col)} :
            /\ trainer' = [trainer EXCEPT !.data_processor = r.self]
            /\ Called("prepare_features", r.exc, r.value)
            /\ history' = [history EXCEPT !.prepare_run = TRUE,
                                          !.prepare_completed = @ \/ r.exc = "none"]
            /\ UNCHANGED <<disk, exVars, dsVars, apiVars, evVars>>

ProcessNewData ==
    \E df \in Frames :
        /\ ml_result.n < MaxCalls
        /\ \E r \in {process_new_data(trainer.data_processor, df)} :
            /\ trainer' = [trainer EXCEPT !.data_processor = r.self]
            /\ Called("process_new_data", r.exc, r.value)
            /\ history' = [history EXCEPT
                              !.refused = @ \/ (r.exc = "ValueError"
                                                /\ r.value = NotFittedMessage)]
            /\ UNCHANGED <<disk, exVars, dsVars, apiVars, evVars>>

Train ==
    \E df \in Frames, target_col \in TargetColumns :
        /\ ml_result.n < MaxCalls
        /\ \E r \in {train(trainer, df, target_col)} :
            /\ trainer' = r.self
            /\ Called("train", r.exc, r.value)
            /\ history' =
                 [history EXCEPT
                    !.prepare_run = TRUE,
                    !.prepare_completed =
                        @ \/ prepare_features(trainer.data_processor, df,
                                              target_col).exc = "none",
                    !.train_completed = @ \/ r.exc = "none"]
            /\ UNCHANGED <<disk, exVars, dsVars, apiVars, evVars>>

CreateModel ==
    /\ ml_result.n < MaxCalls
    /\ \E r \in {create_model(trainer)} :
        /\ trainer' = r.self
        /\ Called("create_model", r.exc, r.value)
        /\ UNCHANGED <<disk, history, exVars, dsVars, apiVars, evVars>>

SaveModel ==
    \E filepath \in Paths :
        /\ ml_result.n < MaxCalls
        /\ \E r \in {save_model(trainer, disk, filepath)} :
            /\ trainer' = r.self
            /\ disk' = r.files
            /\ Called("save_model", r.exc, r.value)
            /\ UNCHANGED <<history, exVars, dsVars, apiVars, evVars>>

LoadModel ==
    \E filepath \in Paths :
        /\ ml_result.n < MaxCalls
        /\ \E r \in {load_model(disk, filepath)} :
            /\ trainer' = IF r.exc = "none" THEN r.self ELSE trainer
            /\ history' = IF r.exc = "none" THEN [NoHistory EXCEPT !.loaded = TRUE]
                           ELSE history
            /\ Called("load_model", r.exc, r.value)
            /\ UNCHANGED <<disk, exVars, dsVars, apiVars, evVars>>

GetFeatureImportance ==
    /\ ml_result.n < MaxCalls
    /\ \E r \in {get_feature_importance(trainer)} :
        /\ trainer' = r.self
        /\ Called("get_feature_importance", r.exc, r.value)
        /\ UNCHANGED <<disk, history, exVars, dsVars, apiVars, evVars>>

MLNext ==
    \/ PrepareFeatures
    \/ ProcessNewData
    \/ Train
    \/ CreateModel
    \/ SaveModel
    \/ LoadModel
    \/ GetFeatureImportance

SpecML == MLInit /\ [][MLNext]_vars

\* The trainer driven through train, save_model, load_model and
\* get_feature_importance only.
TrainerNext ==
    \/ Train
    \/ SaveModel
    \/ LoadModel
    \/ GetFeatureImportance

SpecTrainer == MLInit /\ [][TrainerNext]_vars

\* The data processor driven through its own two methods.
ProcessorNext ==
    \/ PrepareFeatures
    \/ ProcessNewData

SpecProcessor == MLInit /\ [][ProcessorNext]_vars

-----------------------------------------------------------------------------
(* ModelEvaluator *)

\* A numpy array of numbers, some of them nan.
NdArray(cells) == [t |-> "array", v |-> cells]

\* ModelEvaluator(), as a variant that starts from empty arrays.
NewEvaluatorEmpty ==
    [predictions |-> NdArray(<<>>), actual_values |-> NdArray(<<>>),
     feature_importance |-> None]

\* ModelEvaluator(): lines 18-22
NewEvaluator ==
    [predictions |-> None, actual_values |-> None, feature_importance |-> None]

EvalMetricKeys == {"mse", "rmse", "mae", "r2", "explained_variance"}

\* The five sklearn metrics of lines 42-48: None is no array (TypeError);
\* arrays of different lengths, without elements or with a nan are a ValueError.
EvalMetrics(y_true, y_pred) ==
    IF y_true = None \/ y_pred = None THEN Raised("TypeError")
    ELSE IF Len(y_true.v) # Len(y_pred.v) THEN Raised("ValueError")
    ELSE IF y_true.v = <<>> THEN Raised("ValueError")
    ELSE IF \E i \in 1..Len(y_true.v) : y_true.v[i].t = "nan" \/ y_pred.v[i].t = "nan"
    THEN Raised("ValueError")
    ELSE Returned([k \in EvalMetricKeys |-> "float"])

\* evaluate_predictions(y_true, y_pred): lines 39-50. Both attributes are set
\* before the metrics are computed.
evaluate_predictions(self, y_true, y_pred) ==
    LET self1 == [self EXCEPT !.predictions = y_pred, !.actual_values = y_true]
        metrics == EvalMetrics(y_true, y_pred)
    IN  Outcome(self1, metrics.exc, IF metrics.exc = "none" THEN metrics.value ELSE "")

NoPredictionsMessage == "No predictions available. Run evaluate_predictions first."

\* if self.predictions is None or self.actual_values is None
NoPredictions(self) == self.predictions = None \/ self.actual_values = None

\* A matplotlib figure with its axes.
Figure(kind) == [t |-> "figure", kind |-> kind]

\* plot_predictions(title): lines 64-89. scatter needs arrays of one length,
\* min() and max() need an element.
plot_predictions(self) ==
    IF NoPredictions(self) THEN Outcome(self, "ValueError", NoPredictionsMessage)
    ELSE IF Len(self.actual_values.v) # Len(self.predictions.v)
    THEN Outcome(self, "ValueError", "")
    ELSE IF self.actual_values.v = <<>> THEN Outcome(self, "ValueError", "")
    ELSE Outcome(self, "none", Figure("predictions"))

\* The length of a - b for arrays of lengths a and b under numpy broadcasting,
\* -1 when the shapes cannot be broadcast together.
BroadcastLen(a, b) ==
    IF a = b THEN a ELSE IF a = 1 THEN b ELSE IF b = 1 THEN a ELSE -1

\* plot_residuals(): lines 134-151. The residuals are broadcast; scatter
\* needs as many residuals as predictions.
plot_residuals(self) ==
    IF NoPredictions(self) THEN Outcome(self, "ValueError", NoPredictionsMessage)
    ELSE LET residuals == BroadcastLen(Len(self.actual_values.v),
                                       Len(self.predictions.v))
         IN  IF residuals = -1 THEN Outcome(self, "ValueError", "")
             ELSE IF residuals # Len(self.predictions.v)
             THEN Outcome(self, "ValueError", "")
             ELSE Outcome(self, "none", Figure("residuals"))

\* An importance frame: its columns, the dtype of its importance column and
\* the number of its rows.
ImportanceFrame(columns, dtype, n) ==
    [t |-> "frame", columns |-> columns, dtype |-> dtype, n |-> n]

\* plot_feature_importance(importance_df, top_n): lines 106-125. There is no
\* guard; nlargest raises KeyError without an importance column and TypeError
\* on a column of dtype object.
plot_feature_importance(self, importance_df, top_n) ==
    LET self1 == [self EXCEPT !.feature_importance = importance_df]
    IN  IF "importance" \notin importance_df.columns
        THEN Outcome(self1, "KeyError", "")
        ELSE IF importance_df.dtype = "object" THEN Outcome(self1, "TypeError", "")
        ELSE IF "feature" \notin importance_df.columns
        THEN Outcome(self1, "ValueError", "")
        ELSE Outcome(self1, "none", Figure("feature_importance"))

-----------------------------------------------------------------------------
(* Inputs of the evaluator *)

ArrayCells == {PyInt(1), PyNaN}
Arrays == {None} \cup {NdArray(cells) : cells \in SeqsUpTo(ArrayCells, MaxRows)}

ImportanceFrames ==
    {ImportanceFrame({"feature", "importance"}, "float64", n) : n \in 1..MaxRows}
    \cup {ImportanceFrame({"feature", "importance"}, "object", 1),
          ImportanceFrame({"feature"}, "float64", 1)}

TopNs == {1, 10}

-----------------------------------------------------------------------------
(* The evaluator as a state machine: calls in any order on one evaluator *)

EvalInit ==
    /\ evaluator = NewEvaluator
    /\ ev_result = [n |-> 0, op |-> "none", exc |-> "not_called", value |-> None,
                    evaluated |-> FALSE]
    /\ player_data = Idle /\ extracted = Idle
    /\ json_file = Idle /\ dataset = Idle
    /\ http = Idle /\ requests = Idle /\ api_result = Idle
    /\ trainer = Idle /\ disk = Idle /\ ml_result = Idle /\ history = Idle

\* The record of a call that ended as r did; evaluated tells whether
\* evaluate_predictions was ever called on this evaluator.
EvalCalled(op, r, evaluated) ==
    /\ evaluator' = r.self
    /\ ev_result' = [n |-> ev_result.n + 1, op |-> op, exc |-> r.exc,
                     value |-> r.value, evaluated |-> evaluated]
    /\ UNCHANGED <<exVars, dsVars, apiVars, mlVars>>

EvaluatePredictions ==
    /\ ev_result.n < MaxCalls
    /\ \E y_true \in Arrays, y_pred \in Arrays :
          EvalCalled("evaluate_predictions",
                     evaluate_predictions(evaluator, y_true, y_pred), TRUE)

PlotPredictions ==
    /\ ev_result.n < MaxCalls
    /\ EvalCalled("plot_predictions", plot_predictions(evaluator), ev_result.evaluated)

PlotResiduals ==
    /\ ev_result.n < MaxCalls
    /\ EvalCalled("plot_residuals", plot_residuals(evaluator), ev_result.evaluated)

PlotFeatureImportance ==
    /\ ev_result.n < MaxCalls
    /\ \E importance_df \in ImportanceFrames, top_n \in TopNs :
          EvalCalled("plot_feature_importance",
                     plot_feature_importance(evaluator, importance_df, top_n),
                     ev_result.evaluated)

EvalNext ==
    \/ EvaluatePredictions
    \/ PlotPredictions
    \/ PlotResiduals
    \/ PlotFeatureImportance

SpecEval == EvalInit /\ [][EvalNext]_vars

-----------------------------------------------------------------------------
(* Claims about the extractor *)

\* C2: extract_player_features never raises for a raw record that is a
\* mapping: every call returns a feature record.
C2_NeverRaises == extracted.exc \in {"not_called", "none"}

\* C3: the three per-game rates are 0 whenever games_played is 0 (also when
\* gamesPlayed is missing and defaults to 0), they are the count divided by
\* games_played whenever games_played > 0, and no call ends in a division by
\* zero.
C3_RatesGuarded ==
    /\ extracted.exc # "ZeroDivisionError"
    /\ extracted.exc = "none" =>
          LET f == extracted.value
              IsQuot(r, count) ==
                  /\ r.t = "float"
                  /\ r.v[2] # 0
                  /\ r.v[1] * f.games_played.v = count.v * r.v[2]
          IN  /\ f.games_played = PyInt(0) =>
                    /\ f.goals_per_game = PyInt(0)
                    /\ f.points_per_game = PyInt(0)
                    /\ f.shots_per_game = PyInt(0)
              /\ (f.games_played.t = "int" /\ f.games_played.v > 0) =>
                    /\ IsQuot(f.goals_per_game, f.goals)
                    /\ IsQuot(f.points_per_game, f.points)
                    /\ IsQuot(f.shots_per_game, f.shots)

\* C3 witness: a record with 2 games and 1 goal has been extracted, and its
\* goals_per_game is the quotient 1 / 2.
C3_Witness ==
    /\ extracted.exc = "none"
    /\ extracted.value.games_played = PyInt(2)
    /\ extracted.value.goals = PyInt(1)
    /\ extracted.value.goals_per_game = PyQuot(1, 2)

\* A string of the form YYYY-MM-DD.
IsIsoDate(s) ==
    /\ Len(s) = 10
    /\ \A i \in {1, 2, 3, 4, 6, 7, 9, 10} : IsDigit(s[i])
    /\ s[5] = "-" /\ s[8] = "-"

\* C4: age is 2024 minus the year of a birthDate of the form YYYY-MM-DD, and
\* null when birthDate is absent or cannot be parsed (not a string, or a string
\* that does not start with a number).
C4_AgeFromBirthDate ==
    extracted.exc = "none" =>
        LET bd == Get(player_data, "birthDate", Absent)
            age == extracted.value.age
        IN  /\ (bd.t = "str" /\ IsIsoDate(bd.v)) =>
                    age = PyInt(2024 - DigitsVal(SubSeq(bd.v, 1, 4)))
            /\ bd = Absent => age = PyNone
            /\ (bd.t \notin {"str", "absent"}) => age = PyNone
            /\ (bd.t = "str" /\ \A i \in 1..Len(bd.v) : ~IsDigit(bd.v[i])) =>
                    age = PyNone

\* The name the claim gives a name field: the 'default' sub-field of a mapping,
\* the raw value of a plain string, the empty string when absent or null.
ClaimedNamePart(pd, key) ==
    LET x == Get(pd, key, Absent)
    IN  CASE x.t = "dict" -> Get(x.v, "default", PyStr(<<>>)).v
          [] x.t = "str" -> x.v
          [] OTHER -> <<>>

\* The shapes of a name field the claim speaks of.
ClaimedNameShape(pd, key) ==
    LET x == Get(pd, key, Absent)
    IN  \/ x.t \in {"str", "absent", "null"}
        \/ x.t = "dict" /\ Get(x.v, "default", PyStr(<<>>)).t = "str"

\* C5: each of firstName and lastName contributes its 'default' sub-field when
\* it is a mapping, its raw value when it is a plain string, and the empty
\* string when it is absent or null; name is the trimmed concatenation.
C5_NameFromEitherShape ==
    (/\ extracted.exc = "none"
     /\ ClaimedNameShape(player_data, "firstName")
     /\ ClaimedNameShape(player_data, "lastName")) =>
        extracted.value.name =
            PyStr(Strip(ClaimedNamePart(player_data, "firstName") \o <<" ">>
                        \o ClaimedNamePart(player_data, "lastName")))

-----------------------------------------------------------------------------
(* Claims about the assembler *)

\* The player entries of the input in input order (team by team), for an
\* input create_dataset got through.
RECURSIVE EntriesOf(_)
EntriesOf(items) ==
    IF items = <<>> THEN <<>>
    ELSE IterOf(Head(items)[2]).value \o EntriesOf(Tail(items))

InputEntries == EntriesOf(load_json_data(json_file).v)

\* No two rows of the dataset share a player_id.
OneRowPerId ==
    \A i, j \in 1..Len(dataset.value) :
        dataset.value[i].player_id = dataset.value[j].player_id => i = j

\* The first entry of the input, in input order, that satisfies P.
FirstEntry(P(_)) ==
    LET es == InputEntries
        k == CHOOSE i \in 1..Len(es) : P(es[i]) /\ \A j \in 1..(i - 1) : ~P(es[j])
    IN  es[k]

HasId(e, id) == GetOrNone(e.v, "playerId") = id
InTeams(e) ==
    LET team == GetOrNone(e.v, "currentTeamAbbrev")
    IN  team.t = "str" /\ team.v \in TeamsOfInterest

\* C6 as stated: at most one row per player_id, and the row of an id is the one
\* extracted from the first entry of the input that carries that id.
C6_FirstOccurrenceWins ==
    dataset.exc = "none" =>
        /\ OneRowPerId
        /\ \A i \in 1..Len(dataset.value) :
              LET row == dataset.value[i]
                  first == FirstEntry(LAMBDA e : HasId(e, row.player_id))
              IN  row = extract_player_features(first.v).value

\* C6 amended: at most one row per player_id; the row of an id is the one
\* extracted from the first entry that carries that id and whose team is a team
\* of interest; and every id (truthy, not NaN) carried by such an entry has a row.
C6_FirstKeptOccurrenceWins ==
    dataset.exc = "none" =>
        /\ OneRowPerId
        /\ \A i \in 1..Len(dataset.value) :
              LET row == dataset.value[i]
                  first == FirstEntry(LAMBDA e : HasId(e, row.player_id) /\ InTeams(e))
              IN  /\ \E k \in 1..Len(InputEntries) :
                        HasId(InputEntries[k], row.player_id) /\ InTeams(InputEntries[k])
                  /\ row = extract_player_features(first.v).value
        /\ \A k \in 1..Len(InputEntries) :
              LET id == GetOrNone(InputEntries[k].v, "playerId")
              IN  (Truthy(id) /\ ~IsNa(id) /\ InTeams(InputEntries[k])) =>
                      \E i \in 1..Len(dataset.value) : dataset.value[i].player_id = id

\* C6 witness: id 1 is listed under TOR and again under FLA, and the dataset
\* holds the one row extracted from the TOR entry.
C6_Witness ==
    /\ dataset.exc = "none"
    /\ json_file = JsonFile(PyODict(
           << <<TOR, PyList(<<Player(PyInt(1), PyStr(TOR), Centre)>>)>>,
              <<FLA, PyList(<<Player(PyInt(1), PyStr(FLA), Centre)>>)>> >>))
    /\ Len(dataset.value) = 1
    /\ dataset.value[1].team = PyStr(TOR)

\* C7: every row of the dataset has a player_id that is not missing and a team
\* that is one of the teams of interest.
C7_RowsInTeamsOfInterest ==
    dataset.exc = "none" =>
        \A i \in 1..Len(dataset.value) :
            /\ ~IsNa(dataset.value[i].player_id)
            /\ dataset.value[i].team.t = "str"
            /\ dataset.value[i].team.v \in TeamsOfInterest

\* C7 witness: a well-formed BOS player and a TOR player were both listed under
\* the TOR key, and only the TOR player is in the dataset.
C7_Witness ==
    /\ dataset.exc = "none"
    /\ json_file = JsonFile(PyODict(
           << <<TOR, PyList(<<Player(PyInt(1), PyStr(BOS), Centre),
                               Player(PyInt(2), PyStr(TOR), Centre)>>)>> >>))
    /\ Len(dataset.value) = 1
    /\ dataset.value[1].player_id = PyInt(2)

\* C8: create_dataset never ends in an exception when the file is unreadable,
\* is not JSON, or holds a mapping of teams, whatever the value of each team is.
C8_FailsClosed ==
    load_json_data(json_file).t = "odict" => dataset.exc \in {"not_called", "none"}

\* The text of the file after the last occurrence of the marker, the whole
\* content when there is none.
AfterLastMarker ==
    LET content == json_file.content
        at == {i \in 1..Len(content) : content[i] = Marker}
        last == IF at = {} THEN 0 ELSE CHOOSE i \in at : \A j \in at : j <= i
    IN  SubSeq(content, last + 1, Len(content))

\* Whether a text is JSON text: one JSON value with nothing but white space
\* around it.
IsJsonText(text) ==
    /\ Cardinality({i \in 1..Len(text) : text[i].c = "json"}) = 1
    /\ \A i \in 1..Len(text) : text[i].c \in {"json", "space"}

\* C18: load_json_data returns the JSON value parsed from the text after the
\* last occurrence of the marker (from the whole content when the marker does
\* not occur), and the empty mapping when the file cannot be read or that text
\* is not valid JSON; create_dataset, which begins with that call, never ends
\* in an exception on those files.
C18_LoadJsonData ==
    LET all_data == load_json_data(json_file)
    IN  /\ json_file.kind = "unreadable" => all_data = PyODict(<<>>)
        /\ json_file.kind = "text" =>
              IF IsJsonText(AfterLastMarker)
              THEN \E i \in 1..Len(AfterLastMarker) :
                      /\ AfterLastMarker[i].c = "json"
                      /\ all_data = AfterLastMarker[i].v
              ELSE all_data = PyODict(<<>>)
        /\ (json_file.kind = "text" /\ ~IsJsonText(AfterLastMarker)) =>
              dataset.exc \in {"not_called", "none"}

\* C18 witness: the file holds the marker twice, with a JSON object after each,
\* and the dataset has been built from the object after the second one.
C18_Witness ==
    /\ json_file.kind = "text"
    /\ Cardinality({i \in 1..Len(json_file.content) :
                        json_file.content[i] = Marker}) = 2
    /\ load_json_data(json_file) = OneFlaPlayer
    /\ dataset.exc = "none" /\ Len(dataset.value) = 1
    /\ dataset.value[1].team = PyStr(FLA)

-----------------------------------------------------------------------------
(* Claims about the stats client *)

\* The last GET failed in the sense of the claim: a transport error, a status
\* outside 200..299, or a body that is not JSON.
FailedAnyNon2xx ==
    \/ http.kind = "transport_error"
    \/ http.status < 200 \/ http.status > 299
    \/ http.body = NotJson

\* The last GET failed in the sense of the code: a transport error, a status in
\* 400..599, or a body that is not JSON.
Failed4xx5xx ==
    \/ http.kind = "transport_error"
    \/ (http.status >= 400 /\ http.status <= 599)
    \/ http.body = NotJson

\* C1 as stated: neither operation raises, and on a transport error, a non-2xx
\* status or a JSON-decode failure get_team_roster returns an empty list and
\* get_player_stats returns an empty mapping.
C1_EmptyListOrMapping ==
    /\ api_result.exc \in {"not_called", "none"}
    /\ (api_result.op = "get_team_roster" /\ FailedAnyNon2xx) =>
            api_result.value = PyList(<<>>)
    /\ (api_result.op = "get_player_stats" /\ FailedAnyNon2xx) =>
            api_result.value = PyDict(EmptyDict)

\* C1 amended: neither operation raises, and on a transport error, a 4xx or 5xx
\* status or a JSON-decode failure get_team_roster returns an empty list and
\* get_player_stats returns None.
C1_EmptyListOrNone ==
    /\ api_result.exc \in {"not_called", "none"}
    /\ (api_result.op = "get_team_roster" /\ Failed4xx5xx) =>
            api_result.value = PyList(<<>>)
    /\ (api_result.op = "get_player_stats" /\ Failed4xx5xx) =>
            api_result.value = PyNone

\* C1 witness: get_player_stats has just been answered with HTTP 500 and has
\* returned None.
C1_Witness ==
    /\ api_result.op = "get_player_stats"
    /\ http.kind = "response" /\ http.status = 500
    /\ api_result.exc = "none"
    /\ api_result.value = PyNone

\* C14: every call of get_team_roster or get_player_stats adds exactly one GET
\* to the GETs issued so far, whatever the remote end answers: its URL is the
\* fixed template with the identifier of the call in it, and its only header
\* is Accept: application/json.
C14_OneGetPerCall ==
    [][/\ Len(requests') = Len(requests) + 1
       /\ SubSeq(requests', 1, Len(requests)) = requests
       /\ LET get == requests'[Len(requests')]
          IN  /\ get.headers = [Accept |-> "application/json"]
              /\ api_result'.op = "get_team_roster" =>
                    get.url = <<"https://api-web.nhle.com/v1", "/roster/">>
                                \o api_result'.arg.v \o <<"/current">>
              /\ api_result'.op = "get_player_stats" =>
                    get.url = <<"https://api-web.nhle.com/v1", "/player/">>
                                \o IntToStr(api_result'.arg.v) \o <<"/landing">>]_vars

\* C14 witness: two calls were made, the second a get_team_roster for TOR whose
\* connection failed, and two GETs were issued, the second to the TOR roster.
C14_Witness ==
    /\ api_result.op = "get_team_roster" /\ api_result.arg = PyStr(TOR)
    /\ http = TransportError
    /\ Len(requests) = 2
    /\ requests[2].url = RosterUrl(TOR)

\* The list under key k of the last response body, empty when the body has no
\* such key.
GroupList(k) == IF k \in DOMAIN http.body.v THEN http.body.v[k].v ELSE <<>>

\* The last GET was answered with a JSON mapping in which each of the three
\* position groups is absent or a list.
RosterResponse ==
    /\ ~Failed4xx5xx
    /\ http.body.t = "dict"
    /\ \A k \in {"forwards", "defensemen", "goalies"} :
          k \in DOMAIN http.body.v => http.body.v[k].t = "list"

\* C15: on a successful roster response get_team_roster returns the forwards,
\* then the defensemen, then the goalies of the response, each group in its
\* own order; an absent group contributes nothing and no other key
\* contributes.
C15_RosterConcatenation ==
    (api_result.op = "get_team_roster" /\ RosterResponse) =>
        /\ api_result.exc = "none"
        /\ api_result.value = PyList(GroupList("forwards") \o GroupList("defensemen")
                                       \o GroupList("goalies"))

\* C15 witness: the response listed two forwards, a defenseman, a goalie and a
\* coach, and the roster returned holds the four players in group order.
C15_Witness ==
    /\ api_result.op = "get_team_roster"
    /\ http.kind = "response" /\ http.status = 200
    /\ http.body.t = "dict" /\ "coaches" \in DOMAIN http.body.v
    /\ api_result.value = PyList(<<Stub(2), Stub(1), Stub(3), Stub(4)>>)

\* The number of the GET that asked for the roster of a team.
RosterGet(team) == CHOOSE k \in 1..Len(requests) : requests[k].url = RosterUrl(team)

\* The roster entries of a team that have a truthy id, in roster order.
EntriesWithId(team) ==
    SelectSeq(get_team_roster(Answer(http, RosterGet(team))).value.v,
              LAMBDA player : Truthy(GetOrNone(player.v, "id")))

\* What get_player_stats made of the answer to the request for the j-th of
\* those entries: the requests of a team follow its roster request.
StatsOfEntry(team, j) == get_player_stats(Answer(http, RosterGet(team) + j)).value

\* C21: whatever the remote end answers, get_all_team_stats returns, and what
\* it returns is a mapping with exactly the configured teams as keys; the list
\* of a team holds, in roster order, the non-empty stats records of the roster
\* entries with a truthy id whose stats fetch gave one, so that a failed
\* roster fetch leaves the team an empty list and a failed player fetch drops
\* that player only.
C21_PartialResults ==
    api_result.op = "get_all_team_stats" =>
        /\ api_result.exc = "none"
        /\ api_result.value.t = "odict"
        /\ [i \in 1..Len(api_result.value.v) |-> api_result.value.v[i][1]]
             = <<TOR, FLA>>
        /\ \A i \in 1..2 :
              LET team == api_result.value.v[i][1]
                  n == Len(EntriesWithId(team))
              IN  /\ \A j \in 1..n :
                        requests[RosterGet(team) + j].url
                          = PlayerUrl(EntriesWithId(team)[j].v["id"].v)
                  /\ api_result.value.v[i][2]
                       = PyList(SelectSeq([j \in 1..n |-> StatsOfEntry(team, j)],
                                          Truthy))
                  /\ Fetch(Answer(http, RosterGet(team))).exc # "none" =>
                        api_result.value.v[i][2] = PyList(<<>>)

-----------------------------------------------------------------------------
(* Claims about the ML data processor and the trainer *)

\* The step is a call of op on the trainer at hand.
IsCall(op) == ml_result'.n = ml_result.n + 1 /\ ml_result'.op = op

\* The call just made (the call being made, with a prime) ended in the
\* configuration error of process_new_data.
ConfigurationError == ml_result.exc = "ValueError" /\ ml_result.value = NotFittedMessage

\* C9: a process_new_data call on a processor on which prepare_features has
\* never run, and which was not restored by load_model, raises the ValueError
\* of a processor that is not configured and leaves the trainer and its
\* processor as they were; a process_new_data call on a processor on which
\* prepare_features has completed does not end in that error.
C9_ProcessNewDataGuard ==
    [][IsCall("process_new_data") =>
          /\ (~history.prepare_run /\ ~history.loaded) =>
                 (ConfigurationError' /\ trainer' = trainer)
          /\ history.prepare_completed => ~ConfigurationError']_vars

\* C9 witness: on one processor process_new_data was refused, prepare_features
\* then completed, and the process_new_data call just made returned a frame.
C9_Witness ==
    /\ ml_result.op = "process_new_data"
    /\ ml_result.exc = "none"
    /\ history.refused
    /\ history.prepare_completed
    /\ ~history.loaded

\* The call just made ended in the caller error of a trainer without a model.
NoModelError == ml_result.exc = "ValueError" /\ ml_result.value = NoModelMessage

\* C10: on a trainer on which no train has succeeded and which was not
\* loaded, save_model and get_feature_importance raise the ValueError of a
\* trainer without a model, the files stay as they were and so does the
\* trainer; on a trainer a train has succeeded on, or that was loaded, they do
\* not end in that error.
C10_NoModelGuard ==
    [][(IsCall("save_model") \/ IsCall("get_feature_importance")) =>
          /\ (~history.train_completed /\ ~history.loaded) =>
                 (NoModelError' /\ disk' = disk /\ trainer' = trainer)
          /\ (history.train_completed \/ history.loaded) => ~NoModelError']_vars

\* C12: when a trainer on which a train has succeeded saves its bundle and
\* load_model then reads it, the loaded trainer has the model, the scaler
\* state, the ordered feature-column list and the model-family tag of the
\* saving trainer, and its processor turns every new frame into the same
\* scaled features (or the same exception) as the saving trainer's.
C12_BundleRoundTrip ==
    [][(/\ ml_result.op = "save_model" /\ ml_result.exc = "none"
        /\ history.train_completed
        /\ IsCall("load_model")) =>
          /\ ml_result'.exc = "none"
          /\ trainer'.model = trainer.model
          /\ trainer'.data_processor.scaler = trainer.data_processor.scaler
          /\ trainer'.data_processor.feature_columns
                = trainer.data_processor.feature_columns
          /\ trainer'.model_type = trainer.model_type
          /\ \A df \in Frames :
                LET before == process_new_data(trainer.data_processor, df)
                    after == process_new_data(trainer'.data_processor, df)
                IN  before.exc = after.exc /\ before.value = after.value]_vars

\* C12 witness: a trainer was loaded from a bundle and holds a fitted model
\* with a fitted scaler; nothing else than train, save_model and load_model
\* can have led there.
C12_Witness ==
    /\ ml_result.op = "load_model" /\ ml_result.exc = "none"
    /\ history.loaded
    /\ trainer.model # None /\ trainer.model.fitted
    /\ trainer.data_processor.scaler.fitted
    /\ trainer.data_processor.target_column = None

\* C13: a process_new_data call, whatever it is given and however it ends,
\* leaves the processor (the scaler's fitted parameters, the feature-column
\* list, the target column) exactly as it was, and leaves the frame it was
\* given as it was.
C13_ScalerReused ==
    [][IsCall("process_new_data") =>
          /\ trainer'.data_processor = trainer.data_processor
          /\ \A df \in Frames :
                process_new_data(trainer.data_processor, df).df = df]_vars

\* C13 witness: process_new_data has just returned scaled features from a
\* processor whose scaler was fitted on two rows by prepare_features.
C13_Witness ==
    /\ ml_result.op = "process_new_data" /\ ml_result.exc = "none"
    /\ history.prepare_completed
    /\ trainer.data_processor.scaler.fitted
    /\ trainer.data_processor.scaler.n_samples_seen = MaxRows

\* Frames train can work on: at least two rows, numbers everywhere, with the
\* target column points.
ValidFrames == {CleanFrame(l, n) : l \in Layouts, n \in 2..MaxRows}

\* C16: whatever has happened to the trainer before, train on a frame it can
\* work on returns, for a trainer of a supported family, a mapping with exactly
\* the six keys train_mse, test_mse, train_rmse, test_rmse, train_r2, test_r2
\* and leaves a fitted model; for a trainer of any other model_type it raises
\* the ValueError of an unsupported model type and leaves no model set.
C16_TrainMetrics ==
    \A df \in ValidFrames :
        LET r == train(trainer, df, "points")
        IN  /\ trainer.model_type \in {"random_forest", "gradient_boosting"} =>
                  /\ r.exc = "none"
                  /\ DOMAIN r.value = {"train_mse", "test_mse", "train_rmse",
                                       "test_rmse", "train_r2", "test_r2"}
                  /\ r.self.model # None /\ r.self.model.fitted
            /\ trainer.model_type \notin {"random_forest", "gradient_boosting"} =>
                  /\ r.exc = "ValueError" /\ r.value = "Unsupported model type"
                  /\ r.self.model = None

\* C16 witness: train has just returned its metrics on a gradient_boosting
\* trainer, which holds a fitted model.
C16_Witness ==
    /\ ml_result.op = "train" /\ ml_result.exc = "none"
    /\ trainer.model_type = "gradient_boosting"
    /\ trainer.model # None /\ trainer.model.fitted
    /\ ~history.loaded

\* C17: whatever has happened to the processor before, a prepare_features call
\* that returns has (a) recorded the non-target columns of the dataset, in
\* dataset order, as the feature columns; (b, c) left the scaler fitted on all
\* the rows of the input, with the missing cells replaced by the means of
\* their columns over the whole input; (d) split after that, 80/20: the test
\* partition has ceil(0.2 n) of the n scaled rows, the train partition the
\* others, the targets are split alike, and a second call on the same dataset
\* returns the same partitions and leaves the same scaler.
C17_PrepareOrder ==
    \A df \in Frames : \A target_col \in TargetColumns :
        \A r \in {prepare_features(trainer.data_processor, df, target_col)} :
            r.exc = "none" =>
                LET n == Len(df.rows)
                    features == SelectSeq(df.columns, LAMBDA c : c # target_col)
                    X == [columns |-> features,
                          rows |-> [i \in 1..n |-> [j \in 1..Len(features) |->
                                      df.rows[i][ColIndex(df.columns, features[j])]]]]
                    imputed == FillNa(X, FrameMeans(X).value)
                    whole == FittedScaler(imputed)
                    scaled == Transform(whole, imputed).rows
                    again == prepare_features(r.self, df, target_col)
                IN  /\ r.self.feature_columns = PyList(features)
                    /\ r.self.target_column = ColName(target_col)
                    /\ r.self.scaler = whole
                    /\ r.self.scaler.n_samples_seen = n
                    /\ Len(r.value.X_test.rows) = (n + 4) \div 5
                    /\ Len(r.value.X_train.rows) = n - (n + 4) \div 5
                    /\ \E idx \in {Permutation42(n)} :
                          /\ r.value.X_test.rows \o r.value.X_train.rows
                                = TakeRows(scaled, idx)
                          /\ r.value.y_test \o r.value.y_train
                                = TakeRows(Column(df, target_col), idx)
                    /\ again.exc = "none" /\ again.value = r.value
                    /\ again.self = r.self

\* C17 witness: prepare_features has just returned on a processor whose scaler
\* has seen more rows than a train partition of that input can have, and a frame
\* with a missing feature cell is among the inputs it returns on.
C17_Witness ==
    /\ ml_result.op = "prepare_features" /\ ml_result.exc = "none"
    /\ trainer.data_processor.scaler.fitted
    /\ trainer.data_processor.scaler.n_samples_seen = MaxRows
    /\ \E df \in Frames :
          /\ \E i \in 1..Len(df.rows) : df.rows[i][ColIndex(df.columns, "x")].t = "nan"
          /\ prepare_features(trainer.data_processor, df, "points").exc = "none"

\* Whether a model, a feature-column attribute and a scaler come from one
\* train: the model is fitted, on the columns of the list, which are the
\* columns the scaler was fitted on, and the rows the model was fitted on were
\* scaled with the statistics of that scaler.
FromOneTrain(model, feature_columns, scaler) ==
    /\ model.fitted
    /\ feature_columns = PyList(model.feature_names_in)
    /\ scaler.fitted
    /\ scaler.feature_names_in = model.feature_names_in
    /\ \A i \in 1..Len(model.X) : \A j \in 1..Len(model.feature_names_in) :
          /\ model.X[i][j].v[2] = scaler.mean[j]
          /\ model.X[i][j].v[3] = scaler.var[j]

\* C19: after any sequence of train, save_model, load_model and
\* get_feature_importance calls, a model that is set is fitted and the
\* processor's feature columns and scaler come from the train that produced
\* it, and every bundle on disk holds a model, a feature-column list and a
\* scaler that come from one train.
C19_ModelMatchesProcessor ==
    /\ trainer.model # None =>
          FromOneTrain(trainer.model, trainer.data_processor.feature_columns,
                       trainer.data_processor.scaler)
    /\ \A path \in Paths :
          disk[path] # NoFile =>
              FromOneTrain(disk[path].model, disk[path].feature_columns,
                           disk[path].scaler)

\* C20: in every reachable state of the data processor, also after a
\* prepare_features call that raised, a feature-column list that is recorded
\* (not None) names exactly the columns its scaler has been fitted on.
C20_ColumnsOnlyWhenFitted ==
    trainer.data_processor.feature_columns # None =>
        /\ trainer.data_processor.scaler.fitted
        /\ trainer.data_processor.feature_columns
             = PyList(trainer.data_processor.scaler.feature_names_in)

-----------------------------------------------------------------------------
(* Claims about the evaluator *)

\* The step is a call of op on the evaluator at hand.
IsEvalCall(op) == ev_result'.n = ev_result.n + 1 /\ ev_result'.op = op

\* The call just made ended in the state error of an evaluator without
\* predictions.
StateError == ev_result.exc = "ValueError" /\ ev_result.value = NoPredictionsMessage

\* C11 as stated: each of plot_predictions, plot_feature_importance and
\* plot_residuals, called on an evaluator on which evaluate_predictions was
\* never called, raises the state error.
C11_PlotsRequireEvaluate ==
    [][(/\ \/ IsEvalCall("plot_predictions")
           \/ IsEvalCall("plot_feature_importance")
           \/ IsEvalCall("plot_residuals")
        /\ ~ev_result.evaluated) => StateError']_vars

\* C11 amended: plot_predictions and plot_residuals, called on an evaluator on
\* which evaluate_predictions was never called, raise the state error and leave
\* the evaluator as it was; plot_feature_importance never ends in that error,
\* whether evaluate_predictions was called or not.
C11_PredictionPlotsRequireEvaluate ==
    [][/\ ((IsEvalCall("plot_predictions") \/ IsEvalCall("plot_residuals"))
            /\ ~ev_result.evaluated) => (StateError' /\ evaluator' = evaluator)
       /\ IsEvalCall("plot_feature_importance") => ~StateError']_vars

\* C11 witness: plot_residuals was called on an evaluator that has plotted
\* feature importances but never evaluated predictions, and raised the state
\* error.
C11_Witness ==
    /\ ev_result.op = "plot_residuals"
    /\ ~ev_result.evaluated
    /\ StateError
    /\ evaluator.feature_importance # None

=============================================================================
